---------------------------- MODULE Spec2Model ----------------------------
(***************************************************************************)
(* The FRU inventory access engine of OpenIPMI (lib/fru.c): one FRU        *)
(* object, its reference count and flags, the per-domain FRU list, the     *)
(* IPMI request in flight, and the threads that work on the object: the    *)
(* user (allocate, write, deref, destroy), the transport's response        *)
(* handlers (one chain for the read, one per write), and an iterator.      *)
(*                                                                         *)
(* Every critical section of the per-FRU lock is one step; a thread's      *)
(* position is recorded wherever the code runs with the lock released      *)
(* (before a user callback, inside it, before fru_put, and inside          *)
(* final_fru_destroy's unlocked window).                                   *)
(*                                                                         *)
(* refcount is a C unsigned int.  It is kept as the representative of its  *)
(* residue class modulo 2^32 that is nearest to 0, so -1 stands for        *)
(* 0xFFFFFFFF: the code only ever compares it with 0 and 1.                *)
(*                                                                         *)
(* A use of the object after final_fru_destroy freed it is undefined       *)
(* behaviour.  Both outcomes are kept: the freed memory still holds what   *)
(* was last written (the step runs as written), or the process dies        *)
(* (Crash).                                                                *)
(***************************************************************************)
EXTENDS Integers, Sequences, FiniteSets, TLC

\* ------------------------------------------------------------ constants
MAX_FRU_DATA_FETCH == 32
FRU_DATA_FETCH_DECR == 8
MIN_FRU_DATA_FETCH == 16
MAX_FRU_DATA_WRITE == 16
MAX_FRU_WRITE_RETRIES == 30

\* errno values and IPMI completion codes the engine names
EPERM == 1
EAGAIN == 11
ENOMEM == 12
EINVAL == 22
ENOSYS == 38
EMSGSIZE == 90
ECANCELED == 125
IPMI_TIMEOUT_CC == 195
IPMI_REQUEST_DATA_LENGTH_INVALID_CC == 199
IPMI_REQUESTED_DATA_LENGTH_EXCEEDED_CC == 200
IPMI_PARAMETER_OUT_OF_RANGE_CC == 201
IPMI_CANNOT_RETURN_REQ_LENGTH_CC == 202
IPMI_UNKNOWN_ERR_CC == 255
IPMI_DEVICE_BUSY_CC == 129
IPMI_IPMI_ERR_TOP == 16777216

IPMI_IPMI_ERR_VAL(cc) == IPMI_IPMI_ERR_TOP + cc

\* ------------------------------------------------------------ bounds
\* writes the user may start in one run
MaxWrites == 1
\* the largest inventory area the device of the read specification
\* advertises
MaxSize == 41
\* how many units more than were asked for that device may return
MaxExtra == 1
\* the largest offset and the largest length of a region the decoder's
\* write hook of the write specification reports
MaxOff == 16
MaxLen == 17
\* how many times in a row the device of the write specification is busy
MaxBusy == 2
\* registered decoders in the decoding specification
MaxDecs == 2
\* largest area of the device that serves every request as asked
MaxServed == 70

\* ------------------------------------------------------------ state
VARIABLES
    fru,        \* the ipmi_fru_t object (a record of its fields)
    frul,       \* TRUE iff the object is an item of the domain's FRU list
    msg,        \* the IPMI request in flight for this FRU
    pc,         \* the position of every thread
    ret,        \* where a thread continues when its fru_put returns
    cb_err,     \* the error a completing operation hands to its callback
    fetched_cb, \* errors the allocation's fetched callback was invoked with
    done_cb,    \* per write: errors its done callback was invoked with
    destroy_cb, \* number of invocations of the user's destroy handler
    teardowns,  \* number of times final_fru_destroy freed the object
    wr_started, \* number of ipmi_fru_write calls that got past the gate
    last_cc,    \* completion code (data[0]) of the last response handled
    wc_hooks,   \* per write: invocations of the decoder's write_complete hook
    yielded,    \* TRUE once final_fru_destroy gave up after its unlocked
                \* window because the reference count had grown
    held,       \* per thread: how many times it holds the per-FRU lock
                \* between two of its steps
    ucall,      \* the user's last call
    urv,        \* return value of the user's last call
    crashed     \* "no", or the kind of thread whose undefined behaviour
                \* killed the process

vars == <<fru, frul, msg, pc, ret, cb_err, fetched_cb, done_cb, destroy_cb,
          teardowns, wr_started, last_cc, wc_hooks, yielded, held, ucall, urv,
          crashed>>

\* what the user's callbacks, the decoder's hook and final_fru_destroy
\* were seen to do, what the device was last seen to answer, and the holds
\* of the per-FRU lock that outlast a step
hist == <<fetched_cb, done_cb, destroy_cb, teardowns, last_cc, wc_hooks,
          yielded, held>>
\* the user's last call and its result
user == <<ucall, urv>>

\* threads
U == <<"user", 0>>
IT == <<"iter", 0>>
RD == <<"rd", 0>>
WR(i) == <<"wr", i>>
WriteOps == {WR(i) : i \in 1..MaxWrites}
Threads == {U, IT, RD} \cup WriteOps

NoMsg == [cmd |-> "none", off |-> 0, cnt |-> 0, boff |-> 0, bcnt |-> 0, op |-> 0]

\* C shifts and minimum
Shr(x, s) == IF s = 1 THEN x \div 2 ELSE x
Shl(x, s) == IF s = 1 THEN x * 2 ELSE x
Min(a, b) == IF a < b THEN a ELSE b

\* ------------------------------------------------------------ the object
\* The object as ipmi_fru_alloc_internal leaves it (memset 0, then the
\* fields it sets).  alloc records that the object exists, freed that
\* ipmi_mem_free(fru) ran; data is TRUE iff fru->data is not NULL and
\* data_size is the size it was allocated with.
NewFru(handler) ==
    [alloc |-> TRUE, freed |-> FALSE,
     deleted |-> FALSE, refcount |-> 2, in_use |-> TRUE,
     in_frulist |-> FALSE,
     fetched_handler |-> handler, domain_fetched_handler |-> "NULL",
     fetched_cb_data |-> 0,
     destroy_handler |-> FALSE,
     access_by_words |-> 0, data |-> FALSE, data_size |-> 0,
     data_len |-> 0, curr_pos |-> 0,
     fetch_size |-> MAX_FRU_DATA_FETCH,
     update_recs |-> <<>>,
     last_cmd |-> [off |-> 0, len |-> 0], last_cmd_len |-> 0,
     retry_count |-> 0,
     ops |-> FALSE]

NoFru == [NewFru("NULL") EXCEPT !.alloc = FALSE, !.refcount = 0,
                                !.in_use = FALSE, !.fetch_size = 0]

\* fru_get: the caller holds the lock
fru_get(f) == [f EXCEPT !.refcount = @ + 1]

\* fru->refcount-- on an unsigned int
RefDec(r) == r - 1

\* ------------------------------------------------------------ decoders
\* fru_call_decoders: decs is the list of registered decoders in
\* registration order, each entry the value its decode(fru) returns for this
\* buffer.  The walk stops at the first 0; a decoder that accepts installs
\* its ops table.  called counts the decoders invoked.
RECURSIVE FirstAccept(_, _)
FirstAccept(decs, i) ==
    IF i > Len(decs) THEN 0
    ELSE IF decs[i] = 0 THEN i
    ELSE FirstAccept(decs, i + 1)

\* fru_call_decoder returning LOCKED_LIST_ITER_CONTINUE after a success too.
fru_call_decoders_all(f, decs) ==
    LET a == FirstAccept(decs, 1) IN
    IF a = 0 THEN [err |-> ENOSYS, fru |-> f, called |-> Len(decs)]
    ELSE [err |-> 0, fru |-> [f EXCEPT !.ops = TRUE], called |-> Len(decs)]

fru_call_decoders(f, decs) ==
    LET a == FirstAccept(decs, 1) IN
    IF a = 0 THEN [err |-> ENOSYS, fru |-> f, called |-> Len(decs)]
    ELSE [err |-> 0, fru |-> [f EXCEPT !.ops = TRUE], called |-> a]

\* ------------------------------------------------------------ reading
\* fetch_complete up to its _ipmi_fru_unlock: what is left is the callback
\* and the fru_put, which the thread does in later steps.
fetch_complete(f, err, decs) ==
    LET d == IF err = 0 THEN fru_call_decoders(f, decs)
             ELSE [err |-> err, fru |-> f, called |-> 0]
    IN [fru |-> [d.fru EXCEPT !.data = FALSE, !.data_size = 0,
                              !.in_use = FALSE],
        msg |-> NoMsg, done |-> TRUE, err |-> d.err, decoded |-> d.called]

\* request_next_data always asking for fetch_size bytes.
request_next_data_unclamped(f) ==
    LET to_read == f.fetch_size IN
    [cmd |-> "read",
     off |-> Shr(f.curr_pos, f.access_by_words) % 65536,
     cnt |-> Shr(to_read, f.access_by_words) % 256,
     boff |-> f.curr_pos, bcnt |-> to_read, op |-> 0]

\* request_next_data asking again for the range it asked for first.
request_next_data_rewound(f) ==
    LET to_read == Min(f.data_len, f.fetch_size) IN
    [cmd |-> "read", off |-> 0,
     cnt |-> Shr(to_read, f.access_by_words) % 256,
     boff |-> 0, bcnt |-> to_read, op |-> 0]

\* request_next_data: the Read FRU Data request it builds.  boff and bcnt
\* are curr_pos and to_read, off and cnt what goes on the wire.
request_next_data(f) ==
    LET to_read == Min(f.data_len - f.curr_pos, f.fetch_size) IN
    [cmd |-> "read",
     off |-> Shr(f.curr_pos, f.access_by_words) % 65536,
     cnt |-> Shr(to_read, f.access_by_words) % 256,
     boff |-> f.curr_pos, bcnt |-> to_read, op |-> 0]

Continue(f, m) == [fru |-> f, msg |-> m, done |-> FALSE, err |-> 0, decoded |-> 0]

BackoffCC == {IPMI_CANNOT_RETURN_REQ_LENGTH_CC,
              IPMI_REQUESTED_DATA_LENGTH_EXCEEDED_CC,
              IPMI_REQUEST_DATA_LENGTH_INVALID_CC,
              IPMI_TIMEOUT_CC, IPMI_UNKNOWN_ERR_CC}

\* fru_data_handler that steps fetch_size down to the minimum at once.
fru_data_handler_to_min(f, rsp, sendrv, decs) ==
    IF f.deleted THEN fetch_complete(f, ECANCELED, decs)
    ELSE IF rsp.cc \in BackoffCC /\ f.fetch_size > MIN_FRU_DATA_FETCH THEN
        LET g == [f EXCEPT !.fetch_size = MIN_FRU_DATA_FETCH] IN
        IF sendrv # 0 THEN fetch_complete(g, sendrv, decs)
        ELSE Continue(g, request_next_data(g))
    ELSE IF rsp.cc # 0 THEN
        IF f.curr_pos >= 8
        THEN fetch_complete([f EXCEPT !.data_len = f.curr_pos], 0, decs)
        ELSE fetch_complete(f, IPMI_IPMI_ERR_VAL(rsp.cc), decs)
    ELSE IF rsp.len < 2 THEN fetch_complete(f, EINVAL, decs)
    ELSE LET count == Shl(rsp.cnt, f.access_by_words) IN
        IF count = 0 THEN fetch_complete(f, EINVAL, decs)
        ELSE IF count > rsp.len - 2 THEN fetch_complete(f, EINVAL, decs)
        ELSE LET g == [f EXCEPT !.curr_pos = @ + count] IN
            IF g.curr_pos < g.data_len THEN
                IF sendrv # 0 THEN fetch_complete(g, sendrv, decs)
                ELSE Continue(g, request_next_data(g))
            ELSE fetch_complete(g, 0, decs)

\* fru_data_handler for which every refusal of the device is fatal.
fru_data_handler_strict(f, rsp, sendrv, decs) ==
    IF f.deleted THEN fetch_complete(f, ECANCELED, decs)
    ELSE IF rsp.cc \in BackoffCC /\ f.fetch_size > MIN_FRU_DATA_FETCH THEN
        LET g == [f EXCEPT !.fetch_size = @ - FRU_DATA_FETCH_DECR] IN
        IF sendrv # 0 THEN fetch_complete(g, sendrv, decs)
        ELSE Continue(g, request_next_data(g))
    ELSE IF rsp.cc # 0 THEN fetch_complete(f, IPMI_IPMI_ERR_VAL(rsp.cc), decs)
    ELSE IF rsp.len < 2 THEN fetch_complete(f, EINVAL, decs)
    ELSE LET count == Shl(rsp.cnt, f.access_by_words) IN
        IF count = 0 THEN fetch_complete(f, EINVAL, decs)
        ELSE IF count > rsp.len - 2 THEN fetch_complete(f, EINVAL, decs)
        ELSE LET g == [f EXCEPT !.curr_pos = @ + count] IN
            IF g.curr_pos < g.data_len THEN
                IF sendrv # 0 THEN fetch_complete(g, sendrv, decs)
                ELSE Continue(g, request_next_data(g))
            ELSE fetch_complete(g, 0, decs)

\* fru_data_handler without its test for a count of 0.
fru_data_handler_no_progress(f, rsp, sendrv, decs) ==
    IF f.deleted THEN fetch_complete(f, ECANCELED, decs)
    ELSE IF rsp.cc \in BackoffCC /\ f.fetch_size > MIN_FRU_DATA_FETCH THEN
        LET g == [f EXCEPT !.fetch_size = @ - FRU_DATA_FETCH_DECR] IN
        IF sendrv # 0 THEN fetch_complete(g, sendrv, decs)
        ELSE Continue(g, request_next_data(g))
    ELSE IF rsp.cc # 0 THEN
        IF f.curr_pos >= 8
        THEN fetch_complete([f EXCEPT !.data_len = f.curr_pos], 0, decs)
        ELSE fetch_complete(f, IPMI_IPMI_ERR_VAL(rsp.cc), decs)
    ELSE IF rsp.len < 2 THEN fetch_complete(f, EINVAL, decs)
    ELSE LET count == Shl(rsp.cnt, f.access_by_words) IN
        IF count > rsp.len - 2 THEN fetch_complete(f, EINVAL, decs)
        ELSE LET g == [f EXCEPT !.curr_pos = @ + count] IN
            IF g.curr_pos < g.data_len THEN
                IF sendrv # 0 THEN fetch_complete(g, sendrv, decs)
                ELSE Continue(g, request_next_data(g))
            ELSE fetch_complete(g, 0, decs)

\* fru_data_handler backing off while fetch_size >= MIN_FRU_DATA_FETCH.
fru_data_handler_below_min(f, rsp, sendrv, decs) ==
    IF f.deleted THEN fetch_complete(f, ECANCELED, decs)
    ELSE IF rsp.cc \in BackoffCC /\ f.fetch_size >= MIN_FRU_DATA_FETCH THEN
        LET g == [f EXCEPT !.fetch_size = @ - FRU_DATA_FETCH_DECR] IN
        IF sendrv # 0 THEN fetch_complete(g, sendrv, decs)
        ELSE Continue(g, request_next_data(g))
    ELSE IF rsp.cc # 0 THEN
        IF f.curr_pos >= 8
        THEN fetch_complete([f EXCEPT !.data_len = f.curr_pos], 0, decs)
        ELSE fetch_complete(f, IPMI_IPMI_ERR_VAL(rsp.cc), decs)
    ELSE IF rsp.len < 2 THEN fetch_complete(f, EINVAL, decs)
    ELSE LET count == Shl(rsp.cnt, f.access_by_words) IN
        IF count = 0 THEN fetch_complete(f, EINVAL, decs)
        ELSE IF count > rsp.len - 2 THEN fetch_complete(f, EINVAL, decs)
        ELSE LET g == [f EXCEPT !.curr_pos = @ + count] IN
            IF g.curr_pos < g.data_len THEN
                IF sendrv # 0 THEN fetch_complete(g, sendrv, decs)
                ELSE Continue(g, request_next_data(g))
            ELSE fetch_complete(g, 0, decs)

\* fru_data_handler.  rsp = [cc: data[0], len: msg->data_len, cnt: data[1]];
\* sendrv is what ipmi_send_command_addr returns if the handler sends.
fru_data_handler(f, rsp, sendrv, decs) ==
    IF f.deleted THEN fetch_complete(f, ECANCELED, decs)
    ELSE IF rsp.cc \in BackoffCC /\ f.fetch_size > MIN_FRU_DATA_FETCH THEN
        LET g == [f EXCEPT !.fetch_size = @ - FRU_DATA_FETCH_DECR] IN
        IF sendrv # 0 THEN fetch_complete(g, sendrv, decs)
        ELSE Continue(g, request_next_data(g))
    ELSE IF rsp.cc # 0 THEN
        IF f.curr_pos >= 8
        THEN fetch_complete([f EXCEPT !.data_len = f.curr_pos], 0, decs)
        ELSE fetch_complete(f, IPMI_IPMI_ERR_VAL(rsp.cc), decs)
    ELSE IF rsp.len < 2 THEN fetch_complete(f, EINVAL, decs)
    ELSE LET count == Shl(rsp.cnt, f.access_by_words) IN
        IF count = 0 THEN fetch_complete(f, EINVAL, decs)
        ELSE IF count > rsp.len - 2 THEN fetch_complete(f, EINVAL, decs)
        ELSE LET g == [f EXCEPT !.curr_pos = @ + count] IN
            IF g.curr_pos < g.data_len THEN
                IF sendrv # 0 THEN fetch_complete(g, sendrv, decs)
                ELSE Continue(g, request_next_data(g))
            ELSE fetch_complete(g, 0, decs)

\* fru_inventory_area_handler that accepts an area of any size.
fru_inventory_area_handler_any_size(f, rsp, allocok, sendrv, decs) ==
    IF f.deleted THEN fetch_complete(f, ECANCELED, decs)
    ELSE IF rsp.cc # 0 THEN fetch_complete(f, IPMI_IPMI_ERR_VAL(rsp.cc), decs)
    ELSE IF rsp.len < 4 THEN fetch_complete(f, EINVAL, decs)
    ELSE LET g == [f EXCEPT !.data_len = rsp.size,
                            !.access_by_words = rsp.flags % 2] IN
        IF ~allocok THEN fetch_complete(g, ENOMEM, decs)
        ELSE LET h == [g EXCEPT !.data = TRUE, !.data_size = g.data_len] IN
            IF sendrv # 0 THEN fetch_complete(h, sendrv, decs)
            ELSE Continue(h, request_next_data(h))

\* fru_inventory_area_handler accepting a response of three bytes.
fru_inventory_area_handler_short(f, rsp, allocok, sendrv, decs) ==
    IF f.deleted THEN fetch_complete(f, ECANCELED, decs)
    ELSE IF rsp.cc # 0 THEN fetch_complete(f, IPMI_IPMI_ERR_VAL(rsp.cc), decs)
    ELSE IF rsp.len < 3 THEN fetch_complete(f, EINVAL, decs)
    ELSE LET g == [f EXCEPT !.data_len = rsp.size,
                            !.access_by_words = rsp.flags % 2] IN
        IF g.data_len < 8 THEN fetch_complete(g, EMSGSIZE, decs)
        ELSE IF ~allocok THEN fetch_complete(g, ENOMEM, decs)
        ELSE LET h == [g EXCEPT !.data = TRUE, !.data_size = g.data_len] IN
            IF sendrv # 0 THEN fetch_complete(h, sendrv, decs)
            ELSE Continue(h, request_next_data(h))

\* fru_inventory_area_handler.  rsp = [cc, len, size: data[1..2],
\* flags: data[3]]; allocok tells whether ipmi_mem_alloc succeeds.
fru_inventory_area_handler(f, rsp, allocok, sendrv, decs) ==
    IF f.deleted THEN fetch_complete(f, ECANCELED, decs)
    ELSE IF rsp.cc # 0 THEN fetch_complete(f, IPMI_IPMI_ERR_VAL(rsp.cc), decs)
    ELSE IF rsp.len < 4 THEN fetch_complete(f, EINVAL, decs)
    ELSE LET g == [f EXCEPT !.data_len = rsp.size,
                            !.access_by_words = rsp.flags % 2] IN
        IF g.data_len < 8 THEN fetch_complete(g, EMSGSIZE, decs)
        ELSE IF ~allocok THEN fetch_complete(g, ENOMEM, decs)
        ELSE LET h == [g EXCEPT !.data = TRUE, !.data_size = g.data_len] IN
            IF sendrv # 0 THEN fetch_complete(h, sendrv, decs)
            ELSE Continue(h, request_next_data(h))

\* ------------------------------------------------------------ writing
\* _ipmi_fru_new_update_record without the rounding up of an odd length.
_ipmi_fru_new_update_record_down(f, offset, length) ==
    LET odd == f.access_by_words = 1 /\ offset % 2 = 1
        o1 == IF odd THEN offset - 1 ELSE offset
        l1 == IF odd THEN length + 1 ELSE length
    IN [f EXCEPT !.update_recs =
            Append(@, [offset |-> o1 % 65536, length |-> l1 % 65536])]

\* _ipmi_fru_new_update_record: the record appended at the tail.  offset
\* and length are stored in unsigned short fields.
_ipmi_fru_new_update_record(f, offset, length) ==
    LET odd == f.access_by_words = 1 /\ offset % 2 = 1
        o1 == IF odd THEN offset - 1 ELSE offset
        l1 == IF odd THEN length + 1 ELSE length
        l2 == IF f.access_by_words = 1 /\ l1 % 2 = 1 THEN l1 + 1 ELSE l1
    IN [f EXCEPT !.update_recs =
            Append(@, [offset |-> o1 % 65536, length |-> l2 % 65536])]

\* The decoder's write hook calls _ipmi_fru_new_update_record once per
\* region, in order.
RECURSIVE AddRecords(_, _)
AddRecords(f, regions) ==
    IF regions = <<>> THEN f
    ELSE AddRecords(_ipmi_fru_new_update_record(f, Head(regions).offset,
                                                Head(regions).length),
                    Tail(regions))

\* The while loop of next_fru_write: recs is fru->update_recs, noff the
\* cursor, left the room in the command, length what was gathered.
RECURSIVE WriteBatch(_, _, _, _)
WriteBatch(recs, noff, left, length) ==
    IF recs # <<>> /\ left > 0 /\ noff = Head(recs).offset THEN
        LET tlen == IF left < Head(recs).length THEN left
                    ELSE Head(recs).length
            rest == Head(recs).length - tlen
        IN WriteBatch(IF rest > 0
                      THEN <<[offset |-> (Head(recs).offset + tlen) % 65536,
                              length |-> rest]>> \o Tail(recs)
                      ELSE Tail(recs),
                      noff + tlen, left - tlen, length + tlen)
    ELSE [recs |-> recs, length |-> length]

\* next_fru_write dropping the record that follows its batch.
next_fru_write_skipping(f, op) ==
    LET offset == Head(f.update_recs).offset
        b == WriteBatch(f.update_recs, offset, MAX_FRU_DATA_WRITE, 0)
        woff == Shr(offset, f.access_by_words) % 65536
    IN [fru |-> [f EXCEPT !.update_recs =
                              IF b.recs = <<>> THEN b.recs ELSE Tail(b.recs),
                          !.retry_count = 0,
                          !.last_cmd = [off |-> woff, len |-> b.length],
                          !.last_cmd_len = b.length + 3],
        msg |-> [cmd |-> "write", off |-> woff, cnt |-> b.length,
                 boff |-> offset, bcnt |-> b.length, op |-> op]]

\* next_fru_write with room for one byte less than MAX_FRU_DATA_WRITE.
next_fru_write_short(f, op) ==
    LET offset == Head(f.update_recs).offset
        b == WriteBatch(f.update_recs, offset, MAX_FRU_DATA_WRITE - 1, 0)
        woff == Shr(offset, f.access_by_words) % 65536
    IN [fru |-> [f EXCEPT !.update_recs = b.recs,
                          !.retry_count = 0,
                          !.last_cmd = [off |-> woff, len |-> b.length],
                          !.last_cmd_len = b.length + 3],
        msg |-> [cmd |-> "write", off |-> woff, cnt |-> b.length,
                 boff |-> offset, bcnt |-> b.length, op |-> op]]

\* next_fru_write filling all of last_cmd behind its three header bytes.
next_fru_write_wide(f, op) ==
    LET offset == Head(f.update_recs).offset
        b == WriteBatch(f.update_recs, offset, MAX_FRU_DATA_WRITE + 1, 0)
        woff == Shr(offset, f.access_by_words) % 65536
    IN [fru |-> [f EXCEPT !.update_recs = b.recs,
                          !.retry_count = 0,
                          !.last_cmd = [off |-> woff, len |-> b.length],
                          !.last_cmd_len = b.length + 3],
        msg |-> [cmd |-> "write", off |-> woff, cnt |-> b.length,
                 boff |-> offset, bcnt |-> b.length, op |-> op]]

\* next_fru_write gathering from the head record only.
next_fru_write_single(f, op) ==
    LET offset == Head(f.update_recs).offset
        b == WriteBatch(<<Head(f.update_recs)>>, offset, MAX_FRU_DATA_WRITE, 0)
        woff == Shr(offset, f.access_by_words) % 65536
    IN [fru |-> [f EXCEPT !.update_recs = b.recs \o Tail(f.update_recs),
                          !.retry_count = 0,
                          !.last_cmd = [off |-> woff, len |-> b.length],
                          !.last_cmd_len = b.length + 3],
        msg |-> [cmd |-> "write", off |-> woff, cnt |-> b.length,
                 boff |-> offset, bcnt |-> b.length, op |-> op]]

\* next_fru_write: the caller made sure fru->update_recs is not empty.
next_fru_write(f, op) ==
    LET offset == Head(f.update_recs).offset
        b == WriteBatch(f.update_recs, offset, MAX_FRU_DATA_WRITE, 0)
        woff == Shr(offset, f.access_by_words) % 65536
    IN [fru |-> [f EXCEPT !.update_recs = b.recs,
                          !.retry_count = 0,
                          !.last_cmd = [off |-> woff, len |-> b.length],
                          !.last_cmd_len = b.length + 3],
        msg |-> [cmd |-> "write", off |-> woff, cnt |-> b.length,
                 boff |-> offset, bcnt |-> b.length, op |-> op]]

\* write_complete up to its _ipmi_fru_unlock.  hook tells whether the
\* decoder's write_complete hook ran.
write_complete(f, err) ==
    [fru |-> [f EXCEPT !.data = FALSE, !.data_size = 0, !.in_use = FALSE],
     msg |-> NoMsg, done |-> TRUE, err |-> err, hook |-> (err = 0)]

WContinue(f, m) == [fru |-> f, msg |-> m, done |-> FALSE, err |-> 0, hook |-> FALSE]

\* fru_write_handler giving up only past MAX_FRU_WRITE_RETRIES.
fru_write_handler_one_more(f, m, rsp, sendrv) ==
    IF rsp.cc = IPMI_DEVICE_BUSY_CC THEN
        IF f.retry_count > MAX_FRU_WRITE_RETRIES
        THEN write_complete(f, IPMI_IPMI_ERR_VAL(rsp.cc))
        ELSE LET g == [f EXCEPT !.retry_count = @ + 1] IN
            IF sendrv # 0 THEN write_complete(g, sendrv)
            ELSE WContinue(g, [cmd |-> "write", off |-> g.last_cmd.off,
                               cnt |-> g.last_cmd_len - 3,
                               boff |-> Shl(g.last_cmd.off, g.access_by_words),
                               bcnt |-> g.last_cmd_len - 3, op |-> m.op])
    ELSE IF rsp.cc # 0 THEN write_complete(f, IPMI_IPMI_ERR_VAL(rsp.cc))
    ELSE IF rsp.len < 2 THEN write_complete(f, EINVAL)
    ELSE IF f.update_recs # <<>> THEN
        LET n == next_fru_write(f, m.op) IN
        IF sendrv # 0 THEN write_complete(n.fru, sendrv)
        ELSE WContinue(n.fru, n.msg)
    ELSE write_complete(f, 0)

\* fru_write_handler without its test for a completion code that is
\* neither 0 nor busy.
fru_write_handler_forgiving(f, m, rsp, sendrv) ==
    IF rsp.cc = IPMI_DEVICE_BUSY_CC THEN
        IF f.retry_count >= MAX_FRU_WRITE_RETRIES
        THEN write_complete(f, IPMI_IPMI_ERR_VAL(rsp.cc))
        ELSE LET g == [f EXCEPT !.retry_count = @ + 1] IN
            IF sendrv # 0 THEN write_complete(g, sendrv)
            ELSE WContinue(g, [cmd |-> "write", off |-> g.last_cmd.off,
                               cnt |-> g.last_cmd_len - 3,
                               boff |-> Shl(g.last_cmd.off, g.access_by_words),
                               bcnt |-> g.last_cmd_len - 3, op |-> m.op])
    ELSE IF rsp.len < 2 THEN write_complete(f, EINVAL)
    ELSE IF f.update_recs # <<>> THEN
        LET n == next_fru_write(f, m.op) IN
        IF sendrv # 0 THEN write_complete(n.fru, sendrv)
        ELSE WContinue(n.fru, n.msg)
    ELSE write_complete(f, 0)

\* fru_write_handler.  rsp = [cc: data[0], len: msg->data_len, cnt: data[1]];
\* m is the request this is the response to.
fru_write_handler(f, m, rsp, sendrv) ==
    IF rsp.cc = IPMI_DEVICE_BUSY_CC THEN
        IF f.retry_count >= MAX_FRU_WRITE_RETRIES
        THEN write_complete(f, IPMI_IPMI_ERR_VAL(rsp.cc))
        ELSE LET g == [f EXCEPT !.retry_count = @ + 1] IN
            IF sendrv # 0 THEN write_complete(g, sendrv)
            ELSE WContinue(g, [cmd |-> "write", off |-> g.last_cmd.off,
                               cnt |-> g.last_cmd_len - 3,
                               boff |-> Shl(g.last_cmd.off, g.access_by_words),
                               bcnt |-> g.last_cmd_len - 3, op |-> m.op])
    ELSE IF rsp.cc # 0 THEN write_complete(f, IPMI_IPMI_ERR_VAL(rsp.cc))
    ELSE IF rsp.len < 2 THEN write_complete(f, EINVAL)
    ELSE IF f.update_recs # <<>> THEN
        LET n == next_fru_write(f, m.op) IN
        IF sendrv # 0 THEN write_complete(n.fru, sendrv)
        ELSE WContinue(n.fru, n.msg)
    ELSE write_complete(f, 0)

\* The out_err exit of start_domain_fru_write.
start_write_err(f, rv) ==
    [fru |-> [f EXCEPT !.update_recs = <<>>, !.data = FALSE,
                       !.data_size = 0, !.in_use = FALSE],
     msg |-> NoMsg, kind |-> "error", rv |-> rv]

\* start_domain_fru_write taking the operation's reference ahead of the
\* test of the queue.
start_domain_fru_write_counted(f, op, allocok, hook, sendrv) ==
    IF ~allocok THEN start_write_err(f, ENOMEM)
    ELSE LET g == AddRecords([f EXCEPT !.data = TRUE,
                                       !.data_size = f.data_len],
                             hook.regions) IN
        IF hook.rv # 0 THEN start_write_err(g, hook.rv)
        ELSE IF g.update_recs = <<>> THEN
            [fru |-> fru_get([g EXCEPT !.data = FALSE, !.data_size = 0,
                                       !.in_use = FALSE]),
             msg |-> NoMsg, kind |-> "empty", rv |-> 0]
        ELSE LET n == next_fru_write(g, op) IN
            IF sendrv # 0 THEN start_write_err(n.fru, sendrv)
            ELSE [fru |-> fru_get(n.fru), msg |-> n.msg,
                  kind |-> "streaming", rv |-> 0]

\* start_domain_fru_write on an object whose ops table is installed.
\* hook = [rv, regions] is what the decoder's write hook returns and the
\* regions it reports; op names the write.
start_domain_fru_write(f, op, allocok, hook, sendrv) ==
    IF ~allocok THEN start_write_err(f, ENOMEM)
    ELSE LET g == AddRecords([f EXCEPT !.data = TRUE,
                                       !.data_size = f.data_len],
                             hook.regions) IN
        IF hook.rv # 0 THEN start_write_err(g, hook.rv)
        ELSE IF g.update_recs = <<>> THEN
            [fru |-> [g EXCEPT !.data = FALSE, !.data_size = 0,
                               !.in_use = FALSE],
             msg |-> NoMsg, kind |-> "empty", rv |-> 0]
        ELSE LET n == next_fru_write(g, op) IN
            IF sendrv # 0 THEN start_write_err(n.fru, sendrv)
            ELSE [fru |-> fru_get(n.fru), msg |-> n.msg,
                  kind |-> "streaming", rv |-> 0]

\* ipmi_fru_write past its gate, up to the call of ipmi_domain_pointer_cb.
write_gate(f, op) ==
    [f EXCEPT !.in_use = TRUE, !.domain_fetched_handler = "done",
              !.fetched_cb_data = op]

\* ipmi_fru_write with the callback installed ahead of the in_use test.
ipmi_fru_write_late_gate(f, op, ptr_rv, allocok, hook, sendrv) ==
    LET g == write_gate(f, op) IN
    IF f.in_use
    THEN [fru |-> [g EXCEPT !.in_use = f.in_use], msg |-> NoMsg,
          kind |-> "busy", rv |-> EAGAIN]
    ELSE IF ptr_rv # 0
    THEN [fru |-> g, msg |-> NoMsg, kind |-> "ptr_err", rv |-> ptr_rv]
    ELSE IF allocok /\ ~g.ops
    THEN [fru |-> [g EXCEPT !.data = TRUE, !.data_size = g.data_len],
          msg |-> NoMsg, kind |-> "null_ops", rv |-> 0]
    ELSE start_domain_fru_write(g, op, allocok, hook, sendrv)

\* ipmi_fru_write, one critical section: the gate, and (through
\* ipmi_domain_pointer_cb, which runs it at once) start_domain_fru_write.
\* ptr_rv is what ipmi_domain_pointer_cb returns when it cannot run its
\* callback.  start_domain_fru_write calls fru->ops->write: with no ops
\* table installed that is a call through a null pointer ("null_ops").
ipmi_fru_write(f, op, ptr_rv, allocok, hook, sendrv) ==
    IF f.in_use THEN [fru |-> f, msg |-> NoMsg, kind |-> "busy", rv |-> EAGAIN]
    ELSE LET g == write_gate(f, op) IN
        IF ptr_rv # 0
        THEN [fru |-> g, msg |-> NoMsg, kind |-> "ptr_err", rv |-> ptr_rv]
        ELSE IF allocok /\ ~g.ops
        THEN [fru |-> [g EXCEPT !.data = TRUE, !.data_size = g.data_len],
              msg |-> NoMsg, kind |-> "null_ops", rv |-> 0]
        ELSE start_domain_fru_write(g, op, allocok, hook, sendrv)

\* ------------------------------------------------------------ destroying
\* ipmi_fru_destroy marking the object deleted ahead of its in_frulist test.
ipmi_fru_destroy_begin_marking(f) ==
    IF f.in_frulist
    THEN [fru |-> [f EXCEPT !.in_frulist = FALSE], rv |-> 0]
    ELSE [fru |-> [f EXCEPT !.deleted = TRUE], rv |-> EPERM]

\* The first critical section of ipmi_fru_destroy.
ipmi_fru_destroy_begin(f) ==
    IF f.in_frulist
    THEN [fru |-> [f EXCEPT !.in_frulist = FALSE], rv |-> 0]
    ELSE [fru |-> f, rv |-> EPERM]

\* ipmi_fru_destroy_internal up to its fru_put.
ipmi_fru_destroy_internal(f) ==
    IF f.in_frulist THEN [fru |-> f, rv |-> EPERM]
    ELSE [fru |-> [f EXCEPT !.destroy_handler = TRUE, !.deleted = TRUE],
          rv |-> 0]

\* fru_put up to the release of the lock.  next tells how the thread goes
\* on: "ret" (fru_put returns), "fin" (final_fru_destroy released the lock
\* to remove the object from the list) or "teardown" (final_fru_destroy
\* released the lock to free the object).
fru_put(f) ==
    LET g == [f EXCEPT !.refcount = RefDec(@)] IN
    IF g.refcount = 0 THEN
        IF g.in_frulist
        THEN [fru |-> [g EXCEPT !.in_frulist = FALSE, !.refcount = @ + 1],
              next |-> "fin"]
        ELSE [fru |-> g, next |-> "teardown"]
    ELSE [fru |-> g, next |-> "ret"]

\* final_fru_destroy going on to free the object whatever the reference
\* count is after the window.
final_fru_destroy_relock_unyielding(f) ==
    [fru |-> f, next |-> "teardown"]

\* final_fru_destroy after locked_list_remove, with the lock taken again.
final_fru_destroy_relock(f) ==
    IF f.refcount # 1
    THEN [fru |-> [f EXCEPT !.refcount = RefDec(@)], next |-> "ret"]
    ELSE [fru |-> f, next |-> "teardown"]

\* The end of final_fru_destroy: destroy handler, cleanup, free.
final_fru_destroy_free(f) ==
    [f EXCEPT !.update_recs = <<>>, !.freed = TRUE]

\* ------------------------------------------------------------ iterating
\* locked_list_iterate_prefunc on the registry of the domain, which holds
\* the object (inlist) or nothing, visiting an object that is not there.
locked_list_iterate_prefunc_stale(f, inlist) ==
    IF f.alloc THEN [fru |-> fru_get(f), visit |-> TRUE]
    ELSE [fru |-> f, visit |-> FALSE]

\* locked_list_iterate_prefunc on the registry of the domain, which holds
\* the object (inlist) or nothing: with the list locked, frus_prefunc takes
\* a reference on every item that is in the list; the items that got one
\* are then handed to frus_handler, once each; what is added to the list
\* later is not visited.
locked_list_iterate_prefunc(f, inlist) ==
    IF inlist THEN [fru |-> fru_get(f), visit |-> TRUE]
    ELSE [fru |-> f, visit |-> FALSE]

\* ------------------------------------------------------------ inputs
\* What the device, the allocator and the decoders may answer.  Every
\* specification draws its inputs from sets of these shapes.
InvRsp(cc, len, size, flags) == [cc |-> cc, len |-> len, size |-> size, flags |-> flags]
DataRsp(cc, len, cnt) == [cc |-> cc, len |-> len, cnt |-> cnt]

\* Lifecycle specification: a byte-access device of 40 bytes that serves
\* what is asked or refuses, decoders that accept or are absent.
LifeInvRsps == {InvRsp(0, 4, 40, 0), InvRsp(IPMI_PARAMETER_OUT_OF_RANGE_CC, 1, 0, 0)}
LifeDataRsps(m) == {DataRsp(0, m.cnt + 2, m.cnt),
                    DataRsp(IPMI_PARAMETER_OUT_OF_RANGE_CC, 1, 0)}
LifeDecs == {<<0>>, <<>>}
LifeHooks == {[rv |-> 0, regions |-> <<>>],
              [rv |-> 0, regions |-> <<[offset |-> 4, length |-> 20]>>],
              [rv |-> EINVAL, regions |-> <<[offset |-> 4, length |-> 4]>>]}
LifeWriteRsps(m) ==
    {DataRsp(0, 2, m.cnt), DataRsp(IPMI_PARAMETER_OUT_OF_RANGE_CC, 1, 0)}

\* Read specification: any size from 7 to MaxSize in either access mode,
\* refused and short answers, allocation and send failures, every
\* completion code the handler tells apart, and a count byte of 0, 1, what
\* was asked or up to MaxExtra more, with all or one byte less of the
\* payload it announces.
ReadInvRsps ==
    {InvRsp(0, 4, n, w) : n \in 7..MaxSize, w \in 0..1}
    \cup {InvRsp(IPMI_PARAMETER_OUT_OF_RANGE_CC, 1, 0, 0), InvRsp(0, 3, 40, 0)}
ReadDataRsps(f, m) ==
    {DataRsp(cc, 1, 0) : cc \in BackoffCC \cup {IPMI_PARAMETER_OUT_OF_RANGE_CC}}
    \cup {DataRsp(0, 1, 0)}
    \cup {DataRsp(0, 2 + Shl(c, f.access_by_words) - s, c) :
             c \in {0, 1} \cup (m.cnt..(m.cnt + MaxExtra)), s \in 0..1}
ReadDecs == {<<0>>, <<ENOSYS>>}

\* ------------------------------------------------------------ actions
Init ==
    /\ fru = NoFru
    /\ frul = FALSE
    /\ msg = NoMsg
    /\ pc = [t \in Threads |-> IF t \in {U, IT} THEN "idle" ELSE "none"]
    /\ ret = [t \in Threads |-> "done"]
    /\ cb_err = [t \in Threads |-> 0]
    /\ fetched_cb = <<>>
    /\ done_cb = [i \in 1..MaxWrites |-> <<>>]
    /\ destroy_cb = 0
    /\ teardowns = 0
    /\ wr_started = 0
    /\ last_cc = 0
    /\ wc_hooks = [i \in 1..MaxWrites |-> 0]
    /\ yielded = FALSE
    /\ held = [t \in Threads |-> 0]
    /\ ucall = "none"
    /\ urv = 0
    /\ crashed = "no"

Goto(t, l) == pc' = [pc EXCEPT ![t] = l]
Returns(call, rv) == ucall' = call /\ urv' = rv

\* An allocator returning the error of the fetch with the object entered.
alloc_result_listed(kind, is_logical, sendrv) ==
    LET f == NewFru(IF kind = "alloc" THEN "fetched" ELSE "NULL")
        err == IF is_logical THEN sendrv ELSE ENOSYS
        g == [f EXCEPT !.in_frulist = (kind # "notrack"),
                       !.domain_fetched_handler =
                           IF kind = "alloc" THEN "NULL" ELSE "fetched"]
    IN IF err # 0 THEN [fru |-> g, rv |-> err, frul |-> (kind # "notrack")]
       ELSE [fru |-> g, rv |-> 0, frul |-> (kind # "notrack")]

\* ipmi_fru_alloc, ipmi_domain_fru_alloc, ipmi_fru_alloc_notrack: one
\* critical section of the list lock and the new object's lock.
alloc_result(kind, is_logical, sendrv) ==
    LET f == NewFru(IF kind = "alloc" THEN "fetched" ELSE "NULL")
        err == IF is_logical THEN sendrv ELSE ENOSYS
    IN IF err # 0 THEN [fru |-> NoFru, rv |-> err, frul |-> FALSE]
       ELSE [fru |-> [f EXCEPT !.in_frulist = (kind # "notrack"),
                               !.domain_fetched_handler =
                                   IF kind = "alloc" THEN "NULL" ELSE "fetched"],
             rv |-> 0, frul |-> (kind # "notrack")]

\* ipmi_fru_alloc and ipmi_domain_fru_alloc when locked_list_add_nolock
\* fails: the object as they have it when they call ipmi_fru_destroy, with
\* the fetch started by ipmi_fru_alloc_internal, in_frulist set and
\* fetched_handler cleared.
alloc_add_failed(kind) ==
    [NewFru(IF kind = "alloc" THEN "fetched" ELSE "NULL")
        EXCEPT !.in_frulist = TRUE, !.fetched_handler = "NULL"]

\* The allocator up to that call of ipmi_fru_destroy: the list lock is
\* released, the object's lock is held since ipmi_fru_alloc_internal, the
\* object is not in the list.  The call is bound to return ENOMEM.
AllocAddFails(kind) ==
    /\ crashed = "no" /\ pc[U] = "idle" /\ ~fru.alloc
    /\ fru' = alloc_add_failed(kind)
    /\ msg' = [NoMsg EXCEPT !.cmd = "inv"]
    /\ pc' = [pc EXCEPT ![RD] = "wait", ![U] = "a_destroy"]
    /\ held' = [held EXCEPT ![U] = 1]
    /\ Returns(kind, ENOMEM)
    /\ UNCHANGED <<frul, ret, cb_err, fetched_cb, done_cb, destroy_cb,
                   teardowns, last_cc, wc_hooks, yielded, wr_started,
                   crashed>>

\* ipmi_fru_destroy's _ipmi_fru_lock in the thread that holds the lock
\* already: a recursive lock lets it in (DestroyBegin), on any other lock
\* the thread waits for itself.
SelfDeadlock ==
    /\ crashed = "no" /\ pc[U] = "a_destroy"
    /\ Goto(U, "blocked")
    /\ UNCHANGED <<fru, frul, msg, ret, cb_err, hist, wr_started, user,
                   crashed>>

Alloc(kind, is_logical, sendrv) ==
    /\ crashed = "no" /\ pc[U] = "idle" /\ ~fru.alloc
    /\ LET r == alloc_result(kind, is_logical, sendrv) IN
        /\ fru' = r.fru
        /\ frul' = r.frul
        /\ Returns(kind, r.rv)
        /\ IF r.rv = 0
           THEN /\ msg' = [NoMsg EXCEPT !.cmd = "inv"]
                /\ Goto(RD, "wait")
           ELSE UNCHANGED <<msg, pc>>
    /\ UNCHANGED <<ret, cb_err, hist, wr_started, crashed>>

\* _ipmi_fru_lock succeeds for thread t: no other thread holds the lock
\* (a thread that holds it already is let in again when the lock is
\* recursive).
LockFree(t) == \A u \in Threads \ {t} : held[u] = 0

\* A handler's critical section ended: either a request is in flight again
\* or the operation completed and the thread goes on to the callback.  A
\* write that completed without error has had the decoder's write_complete
\* hook called, inside the critical section.
Handled(t, r, cc) ==
    /\ LockFree(t)
    /\ fru' = r.fru
    /\ msg' = r.msg
    /\ last_cc' = cc
    /\ wc_hooks' = IF t \in WriteOps /\ r.hook
                   THEN [wc_hooks EXCEPT ![t[2]] = @ + 1]
                   ELSE wc_hooks
    /\ IF r.done
       THEN Goto(t, "cb_call") /\ cb_err' = [cb_err EXCEPT ![t] = r.err]
       ELSE UNCHANGED <<pc, cb_err>>
    /\ UNCHANGED <<frul, ret, fetched_cb, done_cb, destroy_cb, teardowns,
                   yielded, held, wr_started, user, crashed>>

InventoryAreaResponse(rsp, allocok, sendrv, decs) ==
    /\ crashed = "no" /\ pc[RD] = "wait" /\ msg.cmd = "inv"
    /\ Handled(RD, fru_inventory_area_handler(fru, rsp, allocok, sendrv, decs),
               rsp.cc)

DataResponse(rsp, sendrv, decs) ==
    /\ crashed = "no" /\ pc[RD] = "wait" /\ msg.cmd = "read"
    /\ Handled(RD, fru_data_handler(fru, rsp, sendrv, decs), rsp.cc)

WriteResponse(i, rsp, sendrv) ==
    /\ crashed = "no" /\ pc[WR(i)] = "wait" /\ msg.cmd = "write" /\ msg.op = i
    /\ Handled(WR(i), fru_write_handler(fru, msg, rsp, sendrv), rsp.cc)

\* The user callback a completion invokes, read from the object after the
\* lock was released: fetch_complete prefers fetched_handler, write_complete
\* and start_domain_fru_write only look at domain_fetched_handler.
callback_of(f, t) ==
    IF t = RD /\ f.fetched_handler # "NULL"
    THEN [fn |-> f.fetched_handler, data |-> 0]
    ELSE [fn |-> f.domain_fetched_handler, data |-> f.fetched_cb_data]

Invoke(c, err) ==
    /\ fetched_cb' = IF c.fn = "fetched" THEN Append(fetched_cb, err)
                     ELSE fetched_cb
    /\ done_cb' = IF c.fn = "done"
                  THEN [done_cb EXCEPT ![c.data] = Append(@, err)]
                  ELSE done_cb

\* fetch_complete / write_complete / start_domain_fru_write after the
\* unlock: call the user's callback.
Callback(t) ==
    /\ crashed = "no" /\ pc[t] = "cb_call"
    /\ Invoke(callback_of(fru, t), cb_err[t])
    /\ Goto(t, "in_cb")
    /\ UNCHANGED <<fru, frul, msg, ret, cb_err, destroy_cb, teardowns,
                   wr_started, last_cc, wc_hooks, yielded, held, user,
                   crashed>>

\* The user's callback returns: an operation's thread goes on to its
\* fru_put, the iterator to frus_handler's fru_put, the user's own thread
\* (a write without records) is free again.
CallbackReturn(t) ==
    /\ crashed = "no" /\ pc[t] = "in_cb"
    /\ IF t = U
       THEN Goto(t, "idle") /\ UNCHANGED ret
       ELSE Goto(t, "put") /\ ret' = [ret EXCEPT ![t] = "done"]
    /\ UNCHANGED <<fru, frul, msg, cb_err, hist, wr_started, user, crashed>>

After(t, next) == IF next = "ret" THEN ret[t] ELSE next

FruPut(t) ==
    /\ crashed = "no" /\ pc[t] = "put" /\ LockFree(t)
    /\ LET r == fru_put(fru) IN fru' = r.fru /\ Goto(t, After(t, r.next))
    /\ UNCHANGED <<frul, msg, ret, cb_err, hist, wr_started, user, crashed>>

\* final_fru_destroy: locked_list_remove, then the lock again.
FinalRelock(t) ==
    /\ crashed = "no" /\ pc[t] = "fin" /\ LockFree(t)
    /\ frul' = FALSE
    /\ LET r == final_fru_destroy_relock(fru) IN
        /\ fru' = r.fru
        /\ Goto(t, After(t, r.next))
        /\ yielded' = (yielded \/ r.next = "ret")
    /\ UNCHANGED <<msg, ret, cb_err, fetched_cb, done_cb, destroy_cb,
                   teardowns, last_cc, wc_hooks, held, wr_started, user,
                   crashed>>

Teardown(t) ==
    /\ crashed = "no" /\ pc[t] = "teardown"
    /\ destroy_cb' = IF fru.destroy_handler THEN destroy_cb + 1 ELSE destroy_cb
    /\ fru' = final_fru_destroy_free(fru)
    /\ teardowns' = teardowns + 1
    /\ Goto(t, ret[t])
    /\ UNCHANGED <<frul, msg, ret, cb_err, fetched_cb, done_cb, wr_started,
                   last_cc, wc_hooks, yielded, held, user, crashed>>

\* ipmi_fru_write.  A call that the gate rejects is always possible; one
\* that passes it counts against MaxWrites.
IpmiFruWrite(ptr_rv, allocok, hook, sendrv) ==
    /\ crashed = "no" /\ pc[U] = "idle" /\ fru.alloc
    /\ fru.in_use \/ wr_started < MaxWrites
    /\ LET i == wr_started + 1
           r == ipmi_fru_write(fru, i, ptr_rv, allocok, hook, sendrv)
       IN /\ fru' = r.fru
          /\ Returns("write", r.rv)
          /\ wr_started' = IF r.kind = "busy" THEN wr_started ELSE i
          /\ msg' = IF r.kind = "streaming" THEN r.msg ELSE msg
          /\ pc' = IF r.kind = "streaming" THEN [pc EXCEPT ![WR(i)] = "wait"]
                   ELSE IF r.kind = "empty" THEN [pc EXCEPT ![U] = "cb_call"]
                   ELSE pc
          /\ cb_err' = IF r.kind = "empty" THEN [cb_err EXCEPT ![U] = 0]
                       ELSE cb_err
          /\ crashed' = IF r.kind = "null_ops" THEN "user" ELSE crashed
    /\ UNCHANGED <<frul, ret, hist>>

\* ipmi_fru_deref: the user drops the reference it holds.
IpmiFruDeref ==
    /\ crashed = "no" /\ pc[U] = "idle" /\ fru.alloc
    /\ Goto(U, "put")
    /\ ret' = [ret EXCEPT ![U] = "done"]
    /\ Returns("deref", 0)
    /\ UNCHANGED <<fru, frul, msg, cb_err, hist, wr_started, crashed>>

\* ipmi_fru_destroy, first critical section: called by the user, or by an
\* allocator whose locked_list_add_nolock failed ("a_destroy"; its own
\* call has not returned then).  The section takes the lock once and
\* releases it once on each of its ways out.
DestroyBegin ==
    /\ crashed = "no"
    /\ pc[U] = "a_destroy" \/ (pc[U] = "idle" /\ fru.alloc)
    /\ LET r == ipmi_fru_destroy_begin(fru) IN
        /\ fru' = r.fru
        /\ IF pc[U] = "idle"
           THEN /\ Returns("destroy", r.rv)
                /\ IF r.rv = 0 THEN Goto(U, "d_remove") ELSE UNCHANGED pc
           ELSE /\ UNCHANGED user
                /\ Goto(U, IF r.rv = 0 THEN "a_remove" ELSE "done")
    /\ UNCHANGED <<frul, msg, ret, cb_err, hist, wr_started, crashed>>

\* ipmi_fru_destroy: locked_list_remove, then on to the fru_put of the
\* list's reference.  When the object is not in the list the call releases
\* the lock once more and returns EINVAL, to the user or to the allocator,
\* which then returns ENOMEM without handing out the object.
DestroyRemove ==
    /\ crashed = "no" /\ pc[U] \in {"d_remove", "a_remove"}
    /\ IF frul
       THEN /\ frul' = FALSE
            /\ Goto(U, "put")
            /\ ret' = [ret EXCEPT ![U] = "d_internal"]
            /\ UNCHANGED <<user, held>>
       ELSE /\ held' = [held EXCEPT ![U] = @ - 1]
            /\ IF pc[U] = "d_remove"
               THEN Returns("destroy", EINVAL) /\ Goto(U, "idle")
               ELSE UNCHANGED user /\ Goto(U, "done")
            /\ UNCHANGED <<frul, ret>>
    /\ UNCHANGED <<fru, msg, cb_err, fetched_cb, done_cb, destroy_cb,
                   teardowns, last_cc, wc_hooks, yielded, wr_started,
                   crashed>>

\* ipmi_fru_destroy_internal up to its fru_put, as the tail of
\* ipmi_fru_destroy (the call's name stays) or called by the user.  Once
\* it is past its check the call returns 0.
DestroyInternal ==
    /\ crashed = "no"
    /\ pc[U] = "d_internal" \/ (pc[U] = "idle" /\ fru.alloc)
    /\ LET r == ipmi_fru_destroy_internal(fru) IN
        /\ fru' = r.fru
        /\ Returns(IF pc[U] = "idle" THEN "destroy_internal" ELSE ucall, r.rv)
        /\ IF r.rv = 0
           THEN Goto(U, "put") /\ ret' = [ret EXCEPT ![U] = "done"]
           ELSE Goto(U, "idle") /\ UNCHANGED ret
    /\ UNCHANGED <<frul, msg, cb_err, hist, wr_started, crashed>>

\* ipmi_fru_iterate_frus: with the list locked, frus_prefunc takes a
\* reference on the item; the list is unlocked and the user's handler is
\* called on it (frus_handler), which then drops the reference.
Iterate ==
    /\ crashed = "no" /\ pc[IT] = "idle"
    /\ frul => LockFree(IT)
    /\ LET w == locked_list_iterate_prefunc(fru, frul) IN
        /\ fru' = w.fru
        /\ Goto(IT, IF w.visit THEN "in_cb" ELSE "done")
    /\ UNCHANGED <<frul, msg, ret, cb_err, hist, wr_started, user, crashed>>

\* Positions whose next step reads or writes the object.
Touching == {"wait", "cb_call", "put", "fin", "teardown", "d_internal"}

UseAfterFree(t) == fru.freed /\ pc[t] \in Touching

\* The other outcome of a use after free: the process dies in the thread
\* that touches the freed object.
Crash(t) ==
    /\ crashed = "no" /\ UseAfterFree(t)
    /\ crashed' = t[1]
    /\ UNCHANGED <<fru, frul, msg, pc, ret, cb_err, hist, wr_started, user>>

\* ------------------------------------------------------------ lifecycle
Next ==
    \/ \E k \in {"alloc", "domain_alloc", "notrack"}, l \in BOOLEAN :
            Alloc(k, l, 0)
    \/ \E r \in LifeInvRsps, d \in LifeDecs :
            InventoryAreaResponse(r, TRUE, 0, d)
    \/ \E r \in LifeDataRsps(msg), d \in LifeDecs : DataResponse(r, 0, d)
    \/ \E i \in 1..MaxWrites, r \in LifeWriteRsps(msg) :
            WriteResponse(i, r, 0)
    \/ \E t \in Threads : Callback(t)
    \/ \E t \in Threads : CallbackReturn(t)
    \/ \E t \in Threads : FruPut(t)
    \/ \E t \in Threads : FinalRelock(t)
    \/ \E t \in Threads : Teardown(t)
    \/ \E h \in LifeHooks : IpmiFruWrite(0, TRUE, h, 0)
    \/ IpmiFruDeref
    \/ DestroyBegin
    \/ DestroyRemove
    \/ DestroyInternal
    \/ Iterate
    \/ \E t \in Threads : Crash(t)

Spec == Init /\ [][Next]_vars

\* ------------------------------------------------------------ reading only
\* The read of an untracked FRU against an arbitrary device, up to the
\* return of the fetched callback and the read's fru_put.
NextRead ==
    \/ \E l \in BOOLEAN, rv \in {0, ENOMEM} : Alloc("notrack", l, rv)
    \/ \E r \in ReadInvRsps, a \in BOOLEAN, rv \in {0, ENOMEM}, d \in ReadDecs :
            InventoryAreaResponse(r, a, rv, d)
    \/ \E r \in ReadDataRsps(fru, msg), rv \in {0, ENOMEM}, d \in ReadDecs :
            DataResponse(r, rv, d)
    \/ Callback(RD)
    \/ CallbackReturn(RD)
    \/ FruPut(RD)

SpecRead == Init /\ [][NextRead]_vars

\* ------------------------------------------------------------ writing only
\* One write on an untracked FRU of 40 bytes, byte or word access, whose
\* read was served as asked, decoded and has returned.  The write hook
\* reports no region, one or two, in any order, or fails; regions start on
\* and just off the 8-byte grid and are empty, short, or longer than one
\* command carries.  The device acknowledges, refuses or answers short, and
\* is busy up to MaxBusy times in a row; allocation, ipmi_domain_pointer_cb
\* and sending may fail.
WriteRegions ==
    {[offset |-> o, length |-> l] :
        o \in {x \in 0..MaxOff : x % 8 \in {0, 3}},
        l \in {x \in 0..MaxLen : x \in {0, 1, 5, 8} \/ x > 16}}
WriteHooks ==
    {[rv |-> 0, regions |-> <<>>]}
    \cup {[rv |-> rv, regions |-> <<a>>] : rv \in {0, EINVAL}, a \in WriteRegions}
    \cup {[rv |-> 0, regions |-> <<a, b>>] : a \in WriteRegions, b \in WriteRegions}
WriteRsps(f, m, busy) ==
    {DataRsp(0, 2, Shr(m.cnt, f.access_by_words)),
     DataRsp(IPMI_PARAMETER_OUT_OF_RANGE_CC, 1, 0),
     DataRsp(0, 1, 0)}
    \cup (IF f.retry_count < busy THEN {DataRsp(IPMI_DEVICE_BUSY_CC, 1, 0)}
          ELSE {})

\* The read that precedes the write, and the threads' way out.
ReadServed ==
    \/ Alloc("notrack", TRUE, 0)
    \/ \E w \in 0..1 : InventoryAreaResponse(InvRsp(0, 4, 40, w), TRUE, 0, <<0>>)
    \/ DataResponse(DataRsp(0, msg.bcnt + 2, msg.cnt), 0, <<0>>)
    \/ \E t \in Threads : Callback(t)
    \/ \E t \in Threads : CallbackReturn(t)
    \/ \E t \in {RD} \cup WriteOps : FruPut(t)

NextWrite ==
    \/ ReadServed
    \/ /\ wr_started = 0 /\ pc[RD] = "done"
       /\ \E p \in {0, EINVAL}, a \in BOOLEAN, h \in WriteHooks,
             rv \in {0, ENOMEM} : IpmiFruWrite(p, a, h, rv)
    \/ \E r \in WriteRsps(fru, msg, MaxBusy), rv \in {0, ENOMEM} :
            WriteResponse(1, r, rv)

SpecWrite == Init /\ [][NextWrite]_vars

\* ------------------------------------------------------------ busy device
\* The same write with one region of two commands or two regions of one
\* command each, against a device that may be busy without end.
BusyHooks ==
    {[rv |-> 0, regions |-> <<[offset |-> 3, length |-> 17]>>],
     [rv |-> 0, regions |-> <<[offset |-> 8, length |-> 5],
                              [offset |-> 0, length |-> 8]>>]}

NextBusy ==
    \/ ReadServed
    \/ /\ wr_started = 0 /\ pc[RD] = "done"
       /\ \E h \in BusyHooks : IpmiFruWrite(0, TRUE, h, 0)
    \/ \E r \in WriteRsps(fru, msg, MAX_FRU_WRITE_RETRIES + 1),
          rv \in {0, ENOMEM} : WriteResponse(1, r, rv)

SpecBusy == Init /\ [][NextBusy]_vars

\* ------------------------------------------------------------ decoding only
\* Decoding specification: every allocator, a device of 8 or 40 bytes in
\* either access mode that serves what is asked or refuses, and up to
\* MaxDecs registered decoders, each of which accepts the buffer (0) or
\* declines it with an error of its own.
DecodeDecs ==
    UNION {[1..n -> {0, EINVAL}] : n \in 0..MaxDecs}
DecodeInvRsps ==
    {InvRsp(0, 4, n, w) : n \in {8, 40}, w \in 0..1}
    \cup {InvRsp(IPMI_PARAMETER_OUT_OF_RANGE_CC, 1, 0, 0)}
DecodeDataRsps(f, m) ==
    {DataRsp(0, 2 + Shl(m.cnt, f.access_by_words), m.cnt),
     DataRsp(IPMI_PARAMETER_OUT_OF_RANGE_CC, 1, 0)}

NextDecode ==
    \/ \E k \in {"alloc", "domain_alloc", "notrack"} : Alloc(k, TRUE, 0)
    \/ \E r \in DecodeInvRsps, d \in DecodeDecs :
            InventoryAreaResponse(r, TRUE, 0, d)
    \/ \E r \in DecodeDataRsps(fru, msg), d \in DecodeDecs :
            DataResponse(r, 0, d)
    \/ Callback(RD)
    \/ CallbackReturn(RD)
    \/ FruPut(RD)

SpecDecode == Init /\ [][NextDecode]_vars

\* ------------------------------------------------------------ a device that serves
\* Serving specification: a device of 8 to MaxServed bytes in either
\* access mode that answers every request with completion code 0 and the
\* bytes asked for; decoders as in the decoding specification.
ServedInvRsps == {InvRsp(0, 4, n, w) : n \in 8..MaxServed, w \in 0..1}
ServedDataRsp(m) == DataRsp(0, 2 + m.bcnt, m.cnt)

NextServed ==
    \/ \E k \in {"alloc", "domain_alloc", "notrack"} : Alloc(k, TRUE, 0)
    \/ \E r \in ServedInvRsps, d \in DecodeDecs :
            InventoryAreaResponse(r, TRUE, 0, d)
    \/ \E d \in DecodeDecs : DataResponse(ServedDataRsp(msg), 0, d)
    \/ Callback(RD)
    \/ CallbackReturn(RD)
    \/ FruPut(RD)

SpecServed == Init /\ [][NextServed]_vars

\* ------------------------------------------------------------ a list that is full
\* The lifecycle specification with one more input: locked_list_add_nolock
\* may fail in the two allocators that track the object.
NextLock ==
    \/ Next
    \/ \E k \in {"alloc", "domain_alloc"} : AllocAddFails(k)
    \/ SelfDeadlock

SpecLock == Init /\ [][NextLock]_vars

\* ------------------------------------------------------------ properties
OpThreads == {RD} \cup WriteOps

\* no thread is inside a call, a handler or a callback
Quiet == \A t \in Threads : pc[t] \in {"none", "idle", "done"}

\* t holds a reference of its own: an operation from its start (the
\* allocation's second reference, fru_get in start_domain_fru_write) to its
\* fru_put, the iterator from frus_prefunc to frus_handler's fru_put
HoldsRef(t) ==
    \/ t \in OpThreads /\ pc[t] \in {"wait", "cb_call", "in_cb", "put"}
    \/ t = IT /\ pc[t] \in {"in_cb", "put"}

\* the user still holds the reference the allocator returned
UserHoldsRef == pc[U] \in {"idle", "cb_call", "in_cb", "put"}

\* C1: a tracked FRU on which ipmi_fru_destroy returned 0 has its destroy
\* handler invoked exactly once (never twice; once when everything has
\* come to rest), and the handler is not invoked while a read, a write or
\* an iterator still holds its reference.
C1_DestroyHandlerOnce ==
    /\ destroy_cb <= 1
    /\ destroy_cb = 1 => \A t \in OpThreads \cup {IT} : ~HoldsRef(t)
    /\ (ucall = "destroy" /\ urv = 0 /\ pc[U] = "done" /\ Quiet
            /\ crashed = "no") => destroy_cb = 1

\* The object can still be observed: a response handler will run on it or
\* its callback is running, an iterator's callback is running on it, or the
\* user has not given up its handle.
Observable ==
    /\ fru.alloc
    /\ \/ \E t \in OpThreads : pc[t] \in {"wait", "cb_call", "in_cb"}
       \/ pc[IT] = "in_cb"
       \/ pc[U] \in {"idle", "cb_call", "in_cb"}

\* C2: an observable FRU is not freed and has refcount >= 1; the refcount
\* is never decremented below 0; final teardown runs at most once.
C2_RefcountLive ==
    /\ Observable => (~fru.freed /\ fru.refcount >= 1)
    /\ fru.refcount >= 0
    /\ teardowns <= 1

\* C3: while in_frulist is set the refcount is one reference of the
\* registry, plus the caller's handle, plus one per operation in flight,
\* plus one per iterator.
C3_RegistryReference ==
    (fru.alloc /\ fru.in_frulist) =>
        fru.refcount = 1 + (IF UserHoldsRef THEN 1 ELSE 0)
                         + Cardinality({t \in OpThreads \cup {IT} : HoldsRef(t)})

\* C4: while the iterator's callback runs on the FRU the object is not
\* freed and its refcount is at least 1.
C4_IteratorSeesLive ==
    pc[IT] = "in_cb" => (~fru.freed /\ fru.refcount >= 1)

\* a response is handed to the read's handler in this step
RdResponse ==
    pc[RD] = "wait" /\ (pc'[RD] # "wait" \/ msg' # msg \/ crashed' = "rd")

\* C5: the response handler that runs for a read whose FRU was deleted
\* sends nothing, completes the fetch with ECANCELED, frees the buffer and
\* clears in_use; the fetched callback is invoked at most once.
C5_ReadCancelled ==
    /\ [][(RdResponse /\ fru.deleted) =>
            /\ crashed' = "no"
            /\ msg' = NoMsg
            /\ pc'[RD] = "cb_call" /\ cb_err'[RD] = ECANCELED
            /\ ~fru'.data /\ ~fru'.in_use]_vars
    /\ [](Len(fetched_cb) <= 1)

\* C6: a write that is streaming is not stopped by deletion: while its
\* response is awaited or its callback runs the object is not freed, its
\* handler never completes it as cancelled and completes it with success
\* only when the queue is empty, and its callback is invoked at most once.
C6_WriteNotCancelled ==
    /\ [](\A i \in 1..MaxWrites :
            pc[WR(i)] \in {"wait", "cb_call", "in_cb"} =>
                (~fru.freed /\ crashed # "wr"))
    /\ [][\A i \in 1..MaxWrites :
            (pc[WR(i)] = "wait" /\ pc'[WR(i)] = "cb_call" /\ fru.deleted) =>
                /\ cb_err'[WR(i)] # ECANCELED
                /\ cb_err'[WR(i)] = 0 => fru.update_recs = <<>>]_vars
    /\ [](\A i \in 1..MaxWrites : Len(done_cb[i]) <= 1)

\* C7: an ipmi_fru_write call made while in_use is set returns EAGAIN and
\* changes nothing: not the object (in_use, callback and its data, update
\* records, buffer, refcount), not the request in flight, not the position
\* of any thread; no callback is invoked.
C7_WriteBusyNoEffect ==
    [][((\E h \in LifeHooks : IpmiFruWrite(0, TRUE, h, 0)) /\ fru.in_use) =>
            /\ urv' = EAGAIN
            /\ UNCHANGED <<fru, frul, msg, pc, ret, cb_err, hist, wr_started>>]_vars

\* a write was rejected while another write is streaming with records left
C7_Witness ==
    /\ ucall = "write" /\ urv = EAGAIN
    /\ pc[WR(1)] = "wait" /\ fru.in_use /\ fru.update_recs # <<>>

\* C8: in_use is set from allocation until the read's fetched callback has
\* returned, and while a write awaits a response.
C8_InUseUntilCallbackReturns ==
    (fru.alloc /\ ~fru.freed) =>
        /\ pc[RD] \in {"wait", "cb_call", "in_cb"} => fru.in_use
        /\ (\E i \in 1..MaxWrites : pc[WR(i)] = "wait") => fru.in_use

\* C9: during a read curr_pos never decreases and never exceeds data_len.
C9_CursorInBuffer ==
    /\ [](fru.curr_pos <= fru.data_len)
    /\ [][fru'.alloc /\ fru.alloc => fru'.curr_pos >= fru.curr_pos]_vars

\* C10: on a word-access device every Read FRU Data request has an even
\* byte offset and an even byte count.
C10_WordRequestsEven ==
    (msg.cmd = "read" /\ fru.access_by_words = 1) =>
        (msg.boff % 2 = 0 /\ msg.bcnt % 2 = 0)

\* a response handler of the read has issued the next Read FRU Data request
ReadReissued ==
    /\ msg.cmd = "read" /\ msg'.cmd = "read"
    /\ <<fru.curr_pos, fru.fetch_size>>' # <<fru.curr_pos, fru.fetch_size>>

\* C11 as stated: each Read FRU Data request starts at or after the end of
\* the byte range the request before it asked for (strictly ascending
\* offsets, ranges that do not overlap).
C11_AscendingDisjoint ==
    [][ReadReissued => msg'.boff >= msg.boff + msg.bcnt]_vars

\* C11 amended: every Read FRU Data request starts at curr_pos, the end of
\* the bytes stored so far (the first at 0); offsets never decrease; a
\* request has the offset of the one before it exactly when it is the
\* re-issue after a back-off, which asks for no more bytes than before;
\* otherwise its offset is strictly larger.
C11_RequestsAtCursor ==
    /\ [](msg.cmd = "read" => msg.boff = fru.curr_pos)
    /\ [][(msg.cmd = "inv" /\ msg'.cmd = "read") => msg'.boff = 0]_vars
    /\ [][ReadReissued =>
            /\ msg'.boff >= msg.boff
            /\ msg'.boff = msg.boff <=>
                   fru'.fetch_size = fru.fetch_size - FRU_DATA_FETCH_DECR
            /\ msg'.boff = msg.boff => msg'.bcnt <= msg.bcnt
            /\ msg'.boff > msg.boff => fru'.fetch_size = fru.fetch_size]_vars

\* a request at a positive offset, issued after a back-off had shrunk
\* fetch_size
C11_Witness ==
    msg.cmd = "read" /\ msg.boff > 0 /\ fru.fetch_size < MAX_FRU_DATA_FETCH

\* C12: after a fatal condition of a read or a write (a handler completed
\* the operation with an error and its thread has finished, or
\* ipmi_fru_write returned an error other than busy) the buffer is freed,
\* in_use is clear, the user callback was invoked exactly once with that
\* error, and the operation holds no reference any more.
C12_FatalCleanup ==
    /\ (pc[RD] = "done" /\ cb_err[RD] # 0 /\ wr_started = 0) =>
            /\ ~fru.data /\ ~fru.in_use
            /\ fetched_cb = <<cb_err[RD]>>
            /\ fru.refcount = 1
    /\ \A i \in 1..MaxWrites : (pc[WR(i)] = "done" /\ cb_err[WR(i)] # 0) =>
            /\ ~fru.data /\ ~fru.in_use
            /\ done_cb[i] = <<cb_err[WR(i)]>>
            /\ fru.refcount = 1
    /\ (ucall = "write" /\ urv \notin {0, EAGAIN} /\ pc[U] = "idle") =>
            /\ ~fru.data /\ ~fru.in_use
            /\ done_cb[wr_started] = <<urv>>
            /\ fru.refcount = 1

\* fru_data_handler runs in this step on a FRU that is not deleted; the
\* completion code of the response it handles is last_cc'
DataHandled == pc[RD] = "wait" /\ msg.cmd = "read" /\ ~fru.deleted

\* the back-off branch of fru_data_handler is taken for completion code cc
BackoffApplies(cc) == cc \in BackoffCC /\ fru.fetch_size > MIN_FRU_DATA_FETCH

\* the fetch completed through the decoders: success iff one accepted
DecodedCompletion ==
    /\ msg' = NoMsg /\ pc'[RD] = "cb_call"
    /\ cb_err'[RD] \in {0, ENOSYS}
    /\ cb_err'[RD] = 0 <=> fru'.ops

\* C13 as stated: a non-zero completion code at curr_pos >= 8 completes the
\* read through the decoders with data_len = curr_pos; at curr_pos < 8,
\* when no back-off applies, it completes the read with the IPMI error.
C13_TolerantAnyCode ==
    [][(DataHandled /\ last_cc' # 0) =>
            IF fru.curr_pos >= 8
            THEN DecodedCompletion /\ fru'.data_len = fru.curr_pos
            ELSE ~BackoffApplies(last_cc') =>
                    /\ msg' = NoMsg /\ pc'[RD] = "cb_call"
                    /\ cb_err'[RD] = IPMI_IPMI_ERR_VAL(last_cc')]_vars

\* C13 amended: the back-off test comes first whatever curr_pos is; a
\* non-zero completion code to which no back-off applies completes the read
\* through the decoders with data_len = curr_pos when curr_pos >= 8, and
\* with the IPMI error, data_len unchanged and no decoder called, when
\* curr_pos < 8; either way the buffer is freed and no request is sent.
C13_TolerantTruncation ==
    [][(DataHandled /\ last_cc' # 0 /\ ~BackoffApplies(last_cc')) =>
            /\ ~fru'.data /\ ~fru'.in_use
            /\ IF fru.curr_pos >= 8
               THEN DecodedCompletion /\ fru'.data_len = fru.curr_pos
               ELSE /\ msg' = NoMsg /\ pc'[RD] = "cb_call"
                    /\ cb_err'[RD] = IPMI_IPMI_ERR_VAL(last_cc')
                    /\ fru'.data_len = fru.data_len
                    /\ ~fru'.ops]_vars

\* a read that was completed with success by a refusal of the device
C13_Witness ==
    /\ pc[RD] = "cb_call" /\ last_cc # 0 /\ cb_err[RD] = 0
    /\ fru.curr_pos >= 8 /\ fru.data_len = fru.curr_pos

\* the read has completed and its callback is given success
ReadSucceeded ==
    pc[RD] \in {"cb_call", "in_cb", "put", "done"} /\ cb_err[RD] = 0

\* C14: a read that completed with success has data_len >= 8; data_len gets
\* its value from the inventory-area response (the advertised size, stored
\* unchanged) and is changed afterwards only by a tolerant truncation, which
\* sets it to curr_pos >= 8.
C14_FinalDataLen ==
    /\ [](ReadSucceeded => fru.data_len >= 8)
    /\ [][(pc[RD] = "wait" /\ msg.cmd = "inv") =>
            \A r \in ReadInvRsps, a \in BOOLEAN, rv \in {0, ENOMEM},
               d \in ReadDecs :
                (InventoryAreaResponse(r, a, rv, d) /\ r.cc = 0 /\ r.len >= 4)
                    => fru'.data_len = r.size]_vars
    /\ [][(fru.alloc /\ fru'.data_len # fru.data_len) =>
            \/ pc[RD] = "wait" /\ msg.cmd = "inv"
            \/ /\ DataHandled /\ last_cc' # 0
               /\ fru.curr_pos >= 8 /\ fru'.data_len = fru.curr_pos
               /\ pc'[RD] = "cb_call"]_vars

\* a read that ran to the advertised size and was decoded
C14_Witness ==
    /\ ReadSucceeded /\ last_cc = 0
    /\ fru.data_len >= 8 /\ fru.curr_pos >= fru.data_len

\* fru_data_handler takes its back-off branch in this step
BackoffStep == DataHandled /\ BackoffApplies(last_cc')

\* C15 as stated: a back-off decreases fetch_size by 8, re-issues the read
\* at the same offset, leaves curr_pos, data_len and the buffer alone and
\* does not complete the read (no callback).
C15_BackoffAlwaysReissues ==
    [][BackoffStep =>
            /\ fru'.fetch_size = fru.fetch_size - 8
            /\ msg'.cmd = "read" /\ msg'.boff = msg.boff
            /\ fru'.curr_pos = fru.curr_pos /\ fru'.data_len = fru.data_len
            /\ fru'.data = fru.data /\ fru'.data_size = fru.data_size
            /\ pc'[RD] = "wait" /\ fetched_cb' = fetched_cb]_vars

\* C15 amended: a back-off decreases fetch_size by 8 and leaves curr_pos
\* and data_len alone; if the request can be sent it is a read at the same
\* offset for min(fetch_size, data_len - curr_pos) bytes, the buffer is kept
\* and the read goes on without a callback; if it cannot be sent the read
\* completes with the error of the send.
C15_BackoffReissuesOrFails ==
    [][BackoffStep =>
            /\ fru'.fetch_size = fru.fetch_size - 8
            /\ fru'.curr_pos = fru.curr_pos /\ fru'.data_len = fru.data_len
            /\ fetched_cb' = fetched_cb
            /\ IF pc'[RD] = "wait"
               THEN /\ msg'.cmd = "read" /\ msg'.boff = msg.boff
                    /\ msg'.bcnt = Min(fru'.fetch_size,
                                       fru.data_len - fru.curr_pos)
                    /\ fru'.data = fru.data /\ fru'.data_size = fru.data_size
                    /\ fru'.in_use
               ELSE /\ pc'[RD] = "cb_call" /\ cb_err'[RD] = ENOMEM
                    /\ msg' = NoMsg /\ ~fru'.data /\ ~fru'.in_use]_vars

\* the read goes on after its second back-off, past the start of the area
C15_Witness ==
    /\ pc[RD] = "wait" /\ msg.cmd = "read" /\ last_cc \in BackoffCC
    /\ fru.fetch_size = MIN_FRU_DATA_FETCH /\ fru.curr_pos > 0

\* fru_write_handler runs in this step for write i; the completion code of
\* the response it handles is last_cc'
WriteHandled(i) == pc[WR(i)] = "wait" /\ msg.cmd = "write" /\ msg.op = i

\* a response handler of a write has built a new command (not a re-send)
NextCommand ==
    /\ \E i \in 1..MaxWrites : WriteHandled(i)
    /\ msg'.cmd = "write" /\ last_cc' # IPMI_DEVICE_BUSY_CC

\* ipmi_fru_write can pass its gate in this state
WriteCanStart == fru.alloc /\ pc[U] = "idle" /\ ~fru.in_use /\ wr_started = 0

\* C16: a Write FRU Data command carries at most 16 payload bytes, taken
\* from the buffer at one range [offset, offset+length); it is what last_cmd
\* holds; its offset is that of the head record of the queue as it was when
\* the command was built, in a response handler or by the call of
\* ipmi_fru_write, whatever the write hook reported.
C16_CommandRange ==
    /\ [](msg.cmd = "write" =>
            /\ msg.bcnt >= 0 /\ msg.bcnt <= 16
            /\ msg.bcnt = fru.last_cmd_len - 3
            /\ msg.off = fru.last_cmd.off
            /\ msg.boff = Shl(msg.off, fru.access_by_words))
    /\ [][NextCommand =>
            /\ fru.update_recs # <<>>
            /\ msg'.boff = Head(fru.update_recs).offset]_vars
    /\ [](WriteCanStart =>
            \A p \in {0, EINVAL}, a \in BOOLEAN, h \in WriteHooks,
               rv \in {0, ENOMEM} :
                LET r == ipmi_fru_write(fru, wr_started + 1, p, a, h, rv) IN
                r.kind = "streaming" =>
                    /\ h.regions # <<>>
                    /\ r.msg.cmd = "write"
                    /\ r.msg.boff =
                         Head(AddRecords(fru, h.regions).update_recs).offset)

\* a full command past the start of the area, with records still queued
C16_Witness ==
    /\ msg.cmd = "write" /\ msg.bcnt = MAX_FRU_DATA_WRITE /\ msg.boff > 0
    /\ fru.update_recs # <<>>

\* fru_write_handler answered a busy device by sending the command again
Resent ==
    /\ \E i \in 1..MaxWrites : WriteHandled(i)
    /\ msg'.cmd = "write" /\ last_cc' = IPMI_DEVICE_BUSY_CC

\* ipmi_fru_write sent the first command of a write
FirstCommand == wr_started' # wr_started /\ msg'.cmd = "write"

\* C17: a command is sent again at most 30 times; what is sent again is
\* the command as it was sent before, and sending it again leaves the
\* update queue and last_cmd alone and counts one retry; every new command
\* starts with retry_count = 0.
C17_BoundedIdenticalRetries ==
    /\ [](fru.retry_count >= 0 /\ fru.retry_count <= 30)
    /\ [][Resent =>
            /\ msg' = msg
            /\ fru.retry_count < 30
            /\ fru'.retry_count = fru.retry_count + 1
            /\ fru'.update_recs = fru.update_recs
            /\ fru'.last_cmd = fru.last_cmd
            /\ fru'.last_cmd_len = fru.last_cmd_len]_vars
    /\ [][NextCommand \/ FirstCommand => fru'.retry_count = 0]_vars

\* the thirtieth re-send of a command is in flight, records still queued
C17_Witness ==
    /\ msg.cmd = "write" /\ fru.retry_count = MAX_FRU_WRITE_RETRIES
    /\ last_cc = IPMI_DEVICE_BUSY_CC
    /\ fru.update_recs # <<>>

\* the bytes the records of a queue still stand for
RECURSIVE QueueBytes(_)
QueueBytes(recs) ==
    IF recs = <<>> THEN 0 ELSE Head(recs).length + QueueBytes(Tail(recs))

\* q2 is q after a command took n bytes at its head: some leading records
\* are gone whole, the next one may have lost its first bytes, and the
\* rest is as it was, in the order it was
ConsumedAtHead(q, q2, n) ==
    /\ QueueBytes(q2) = QueueBytes(q) - n
    /\ \E k \in 0..Len(q) :
        \/ q2 = SubSeq(q, k + 1, Len(q))
        \/ /\ k < Len(q)
           /\ \E t \in 1..(q[k + 1].length - 1) :
                q2 = <<[offset |-> q[k + 1].offset + t,
                        length |-> q[k + 1].length - t]>>
                     \o SubSeq(q, k + 2, Len(q))

\* the queue the write hook leaves and what ipmi_fru_write returns, for
\* every call that gets as far as sending a command
StartedWrites ==
    UNION {{[q |-> AddRecords(fru, h.regions).update_recs, r |-> r] :
              r \in {x \in {ipmi_fru_write(fru, wr_started + 1, p, a, h, rv) :
                              p \in {0, EINVAL}, a \in BOOLEAN,
                              rv \in {0, ENOMEM}} :
                       x.kind = "streaming"}} :
           h \in WriteHooks}

EmptyWrite == wr_started' # wr_started /\ pc'[U] = "cb_call"

\* C19: when the write hook succeeds and leaves the update queue empty,
\* ipmi_fru_write sends no command, clears in_use, frees the buffer, leaves
\* the reference count as it was and returns 0 after calling the user's
\* callback once, with 0.
C19_EmptyWriteCompletes ==
    /\ [](WriteCanStart /\ fru.ops =>
            \A h \in WriteHooks, rv \in {0, ENOMEM} :
                LET r == ipmi_fru_write(fru, wr_started + 1, 0, TRUE, h, rv) IN
                (h.rv = 0 /\ AddRecords(fru, h.regions).update_recs = <<>>)
                    <=> r.kind = "empty")
    /\ [][EmptyWrite =>
            /\ msg' = msg /\ msg.cmd = "none"
            /\ ~fru'.in_use /\ ~fru'.data
            /\ fru'.refcount = fru.refcount
            /\ fru'.update_recs = <<>>
            /\ cb_err'[U] = 0 /\ urv' = 0
            /\ done_cb' = done_cb
            /\ pc'[WR(wr_started')] = "none"]_vars
    /\ [][pc[U] = "cb_call" =>
            \/ UNCHANGED <<pc[U], done_cb>>
            \/ /\ pc'[U] = "in_cb"
               /\ done_cb' = [done_cb EXCEPT ![wr_started] = Append(@, 0)]]_vars
    /\ [][pc[U] = "in_cb" =>
            /\ done_cb' = done_cb
            /\ pc'[U] \in {"in_cb", "idle"}]_vars
    /\ [](pc[U] = "in_cb" => done_cb[wr_started] = <<0>>)

\* the callback of a write without records is running
C19_Witness ==
    /\ pc[U] = "in_cb" /\ wr_started = 1 /\ done_cb[1] = <<0>>
    /\ ~fru.in_use /\ ~fru.data /\ msg.cmd = "none" /\ fru.refcount = 1

\* offset rounded down to even, end rounded up to even
WordSpan(offset, length) ==
    LET start == offset - (offset % 2)
        end == offset + length + ((offset + length) % 2)
    IN [offset |-> start, length |-> end - start]

\* the record a region is to become on this object
RecordFor(f, a) ==
    IF f.access_by_words = 1 THEN WordSpan(a.offset, a.length)
    ELSE [offset |-> a.offset, length |-> a.length]

\* C20: _ipmi_fru_new_update_record(offset, length) appends one record at
\* the tail of the queue and leaves the records before it alone; on a
\* word-access object the record runs from offset rounded down to even to
\* offset+length rounded up to even, which covers [offset, offset+length)
\* with less than one word to spare at either end; on a byte-access object
\* it is (offset, length).  The queue a write starts from is the old queue
\* followed by these records in the order the write hook reported them.
C20_RecordNormalised ==
    /\ [](fru.alloc /\ ~fru.freed =>
            \A a \in WriteRegions :
                LET g == _ipmi_fru_new_update_record(fru, a.offset, a.length)
                    rec == g.update_recs[Len(g.update_recs)]
                IN /\ g.update_recs = Append(fru.update_recs, RecordFor(fru, a))
                   /\ g = [fru EXCEPT !.update_recs = g.update_recs]
                   /\ fru.access_by_words = 0 =>
                        rec.offset = a.offset /\ rec.length = a.length
                   /\ fru.access_by_words = 1 =>
                        /\ rec.offset % 2 = 0 /\ rec.length % 2 = 0
                        /\ rec.offset <= a.offset
                        /\ a.offset - rec.offset < 2
                        /\ a.offset + a.length <= rec.offset + rec.length
                        /\ rec.offset + rec.length - (a.offset + a.length) < 2)
    /\ [](WriteCanStart =>
            \A h \in WriteHooks :
                /\ AddRecords(fru, h.regions).update_recs =
                       fru.update_recs
                       \o [i \in 1..Len(h.regions) |->
                              RecordFor(fru, h.regions[i])]
                /\ LET r == ipmi_fru_write(fru, wr_started + 1, 0, TRUE, h, 0)
                   IN r.kind = "streaming" =>
                        ConsumedAtHead(fru.update_recs
                                       \o [i \in 1..Len(h.regions) |->
                                              RecordFor(fru, h.regions[i])],
                                       r.fru.update_recs, r.msg.bcnt))

\* a write on a word-access object whose hook reported the region (3, 17):
\* the first command carries [2, 18) and the record (18, 2) is left
C20_Witness ==
    /\ fru.access_by_words = 1 /\ msg.cmd = "write"
    /\ msg.boff = 2 /\ msg.bcnt = MAX_FRU_DATA_WRITE
    /\ fru.update_recs = <<[offset |-> 18, length |-> 2]>>

\* C21: on a word-access object every record of the update queue has an
\* even offset and an even length in every state, a head record that
\* next_fru_write split included, and every Write FRU Data command has an
\* even byte offset and an even payload length.
C21_WordRecordsEven ==
    fru.access_by_words = 1 =>
        /\ \A i \in 1..Len(fru.update_recs) :
              /\ fru.update_recs[i].offset % 2 = 0
              /\ fru.update_recs[i].length % 2 = 0
        /\ msg.cmd = "write" => msg.boff % 2 = 0 /\ msg.bcnt % 2 = 0

\* a command took 16 bytes of a record that began at an odd offset, the
\* rest of the record and one more record are queued
C21_Witness ==
    /\ fru.access_by_words = 1 /\ msg.cmd = "write"
    /\ msg.bcnt = MAX_FRU_DATA_WRITE
    /\ Len(fru.update_recs) = 2
    /\ fru.update_recs[1].offset = msg.boff + MAX_FRU_DATA_WRITE
    /\ fru.update_recs[1].length > 0

\* the decoders that accept, by their place in the registration order
Accepting(decs) == {i \in 1..Len(decs) : decs[i] = 0}

\* the read handled its last response and went to fetch_complete without
\* an error of its own
Dispatched ==
    /\ DataHandled /\ pc'[RD] = "cb_call"
    /\ \/ last_cc' = 0 /\ fru'.curr_pos >= fru'.data_len
       \/ last_cc' # 0 /\ fru.curr_pos >= 8

\* C22: fetch_complete without an error calls the registered decoders in
\* registration order up to and including the first that returns 0 and no
\* further; the result is 0, with that decoder's ops installed, exactly
\* when some decoder accepts, and ENOSYS when all decline or none is
\* registered; with an error of the read no decoder is called.  The result
\* is what the fetched callback of the read receives.
C22_DecoderDispatch ==
    /\ [](pc[RD] = "wait" =>
            \A d \in DecodeDecs :
                LET c == fetch_complete(fru, 0, d) IN
                /\ c.decoded \in 0..Len(d)
                /\ Accepting(d) = {} =>
                     /\ c.err = ENOSYS /\ c.decoded = Len(d)
                     /\ c.fru.ops = fru.ops
                /\ Accepting(d) # {} =>
                     /\ c.err = 0 /\ c.fru.ops
                     /\ c.decoded \in Accepting(d)
                     /\ \A i \in Accepting(d) : c.decoded <= i
                /\ fetch_complete(fru, ECANCELED, d).decoded = 0
                /\ fetch_complete(fru, ECANCELED, d).err = ECANCELED)
    /\ [][Dispatched =>
            \A r \in DecodeDataRsps(fru, msg), d \in DecodeDecs :
                DataResponse(r, 0, d) =>
                    /\ cb_err'[RD] = IF Accepting(d) = {} THEN ENOSYS ELSE 0
                    /\ fru'.ops = (Accepting(d) # {})]_vars
    /\ [][pc[RD] = "cb_call" /\ pc'[RD] # "cb_call" =>
            /\ pc'[RD] = "in_cb"
            /\ fetched_cb' = Append(fetched_cb, cb_err[RD])
            /\ done_cb' = done_cb]_vars

\* the fetched callback of a read that no decoder accepted is running
C22_Witness ==
    /\ pc[RD] = "in_cb" /\ fetched_cb = <<ENOSYS>>
    /\ fru.curr_pos = 40 /\ fru.data_len = 40 /\ ~fru.ops

\* ipmi_fru_iterate_frus walks the registry in this step
IterationStarts == pc[IT] = "idle" /\ pc'[IT] # "idle"

Untouched == UNCHANGED <<fru, frul, msg, pc, ret, cb_err, hist, wr_started, crashed>>

\* C24: ipmi_fru_destroy on an object that is not in_frulist returns EPERM
\* and changes nothing, and on one that is in_frulist it does not return
\* EPERM; ipmi_fru_destroy_internal called on an object that is in_frulist
\* returns EPERM and changes nothing, and on one that is not it returns 0.
C24_PolicyRefusal ==
    /\ [][DestroyBegin =>
            IF fru.in_frulist
            THEN urv' = 0 /\ ~fru'.in_frulist /\ pc'[U] = "d_remove"
            ELSE /\ ucall' = "destroy" /\ urv' = EPERM
                 /\ Untouched]_vars
    /\ [][DestroyInternal /\ pc[U] = "idle" =>
            IF fru.in_frulist
            THEN /\ ucall' = "destroy_internal" /\ urv' = EPERM
                 /\ Untouched
            ELSE /\ urv' = 0 /\ fru'.deleted /\ fru'.destroy_handler
                 /\ pc'[U] = "put"]_vars

\* ipmi_fru_destroy has just refused an object of ipmi_fru_alloc_notrack
\* whose read is under way
C24_Witness ==
    /\ ucall = "destroy" /\ urv = EPERM /\ pc[U] = "idle"
    /\ fru.alloc /\ ~fru.in_frulist /\ ~frul
    /\ ~fru.deleted /\ ~fru.destroy_handler
    /\ fru.refcount = 2 /\ pc[RD] = "wait"

\* the error the claim names for an inventory-area response, 0 when it
\* names none; allocok tells whether the buffer can be allocated
InventoryError(r, allocok) ==
    IF r.cc # 0 THEN IPMI_IPMI_ERR_VAL(r.cc)
    ELSE IF r.len < 4 THEN EINVAL
    ELSE IF r.size < 8 THEN EMSGSIZE
    ELSE IF ~allocok THEN ENOMEM
    ELSE 0

\* C25: on an object that is not deleted, the inventory-area handler ends
\* the read with IPMI_IPMI_ERR_VAL(cc) for a completion code cc # 0, else
\* with EINVAL for fewer than 4 bytes, else with EMSGSIZE for a size below
\* 8, else with ENOMEM when the buffer cannot be allocated; no Read FRU
\* Data request is sent, then or later, and the callback is called once,
\* with that error.
C25_InventoryErrors ==
    /\ [][(pc[RD] = "wait" /\ msg.cmd = "inv" /\ ~fru.deleted) =>
            \A r \in ReadInvRsps, a \in BOOLEAN, rv \in {0, ENOMEM},
               d \in ReadDecs :
                (InventoryAreaResponse(r, a, rv, d)
                 /\ InventoryError(r, a) # 0) =>
                    /\ pc'[RD] = "cb_call"
                    /\ cb_err'[RD] = InventoryError(r, a)
                    /\ msg' = NoMsg
                    /\ ~fru'.data /\ ~fru'.in_use
                    /\ fru'.curr_pos = 0
                    /\ fetched_cb' = fetched_cb]_vars
    /\ [][pc[RD] = "cb_call" /\ pc'[RD] # "cb_call" =>
            /\ pc'[RD] = "in_cb"
            /\ fetched_cb' = Append(fetched_cb, cb_err[RD])]_vars
    /\ [][pc[RD] \in {"cb_call", "in_cb", "put", "done"} =>
            /\ msg' = NoMsg
            /\ pc'[RD] \notin {"wait"}
            /\ pc[RD] # "cb_call" =>
                 fetched_cb' = fetched_cb /\ pc'[RD] # "cb_call"]_vars

\* the callback of a read whose device advertised 7 bytes is running
C25_Witness ==
    /\ pc[RD] = "in_cb" /\ fetched_cb = <<EMSGSIZE>>
    /\ fru.data_len = 7 /\ fru.curr_pos = 0 /\ ~fru.data /\ msg = NoMsg

\* the three allocators
Allocators == {"alloc", "domain_alloc", "notrack"}

\* C26: an allocation with is_logical false returns ENOSYS from each of the
\* three allocators; it leaves no object and nothing in the registry, sends
\* no command and starts no read; as long as no allocation has succeeded
\* no command is outstanding and no callback has been called.
C26_PhysicalUnimplemented ==
    /\ [][(\E k \in Allocators : Alloc(k, FALSE, 0)) =>
            /\ ucall' \in Allocators /\ urv' = ENOSYS
            /\ fru' = NoFru /\ frul' = FALSE
            /\ UNCHANGED <<msg, pc, ret, cb_err, hist>>]_vars
    /\ [](~fru.alloc =>
            /\ msg = NoMsg /\ ~frul
            /\ fetched_cb = <<>> /\ destroy_cb = 0
            /\ \A i \in 1..MaxWrites : done_cb[i] = <<>>
            /\ \A t \in OpThreads : pc[t] = "none")
    /\ [](ucall \in Allocators /\ urv # 0 => ~fru.alloc)

\* ipmi_domain_fru_alloc has just refused a physical device
C26_Witness ==
    /\ ucall = "domain_alloc" /\ urv = ENOSYS
    /\ fru = NoFru /\ ~frul /\ msg = NoMsg /\ pc[RD] = "none"

\* C27: on a byte-access device of N >= 8 bytes that serves every request
\* as asked, the first request is at offset 0, every request is at a
\* multiple of 32 for min(32, N - offset) bytes, a response moves the
\* cursor by the bytes asked for and is followed by the request 32 bytes
\* on or, when the cursor is at N, by the decoders (once, with data_len = N
\* as advertised), whose result the callback receives, once.
C27_ServedRead ==
    /\ [](msg.cmd = "read" /\ fru.access_by_words = 0 =>
            /\ msg.boff = fru.curr_pos /\ msg.boff % 32 = 0
            /\ msg.boff < fru.data_len
            /\ msg.bcnt = Min(32, fru.data_len - msg.boff)
            /\ msg.off = msg.boff /\ msg.cnt = msg.bcnt)
    /\ [][(pc[RD] = "wait" /\ msg.cmd = "inv") =>
            \A r \in ServedInvRsps, d \in DecodeDecs :
                (InventoryAreaResponse(r, TRUE, 0, d) /\ r.flags = 0) =>
                    /\ msg'.cmd = "read" /\ msg'.boff = 0
                    /\ fru'.data_len = r.size]_vars
    /\ [][(DataHandled /\ fru.access_by_words = 0) =>
            /\ fru'.curr_pos = fru.curr_pos + msg.bcnt
            /\ fru'.data_len = fru.data_len
            /\ IF fru'.curr_pos < fru.data_len
               THEN /\ msg'.cmd = "read" /\ msg'.boff = msg.boff + 32
                    /\ pc'[RD] = "wait"
               ELSE /\ fru'.curr_pos = fru.data_len
                    /\ DecodedCompletion
                    /\ \A d \in DecodeDecs :
                          DataResponse(ServedDataRsp(msg), 0, d) =>
                              cb_err'[RD] = fru_call_decoders(fru, d).err]_vars
    /\ [][pc[RD] = "cb_call" /\ pc'[RD] # "cb_call" =>
            /\ pc'[RD] = "in_cb"
            /\ fetched_cb' = Append(fetched_cb, cb_err[RD])]_vars
    /\ [](Len(fetched_cb) <= 1)
    /\ [](pc[RD] \in {"in_cb", "put", "done"} => Len(fetched_cb) = 1)

\* the third request of a read of 70 bytes is outstanding
C27_Witness ==
    /\ msg.cmd = "read" /\ fru.access_by_words = 0
    /\ fru.data_len = 70 /\ msg.boff = 64 /\ msg.bcnt = 6

\* C28: the read that an allocation starts calls the fetched callback
\* installed at the allocation, once: when the read's thread has called a
\* callback, that callback was the fetched one, and it is called at most
\* once; the read's reference is held, and the object is there, until the
\* read's callback has returned.
C28_FetchedExactlyOnce ==
    /\ Len(fetched_cb) <= 1
    /\ pc[RD] \in {"in_cb", "put", "fin", "teardown", "done"} =>
            Len(fetched_cb) = 1
    /\ pc[RD] \in {"wait", "cb_call", "in_cb"} =>
            ~fru.freed /\ fru.refcount >= 1

\* C29: fetch_size of an object is 32, 24 or 16; it is 32 when the object
\* is allocated, and it changes only in a back-off step, which takes 8 off
\* a value above 16, so that a read backs off at most twice; at 16 a
\* back-off completion code ends the read like any completion code that
\* is not 0: decoded with data_len = curr_pos when curr_pos >= 8, with the
\* IPMI error of the code otherwise.
C29_FetchSizeLadder ==
    /\ [](fru.alloc => fru.fetch_size \in {32, 24, 16})
    /\ [][~fru.alloc /\ fru'.alloc => fru'.fetch_size = 32]_vars
    /\ [][fru.alloc /\ fru'.fetch_size # fru.fetch_size =>
            /\ BackoffStep
            /\ fru.fetch_size > 16
            /\ fru'.fetch_size = fru.fetch_size - 8]_vars
    /\ [][BackoffStep => fru'.fetch_size = fru.fetch_size - 8]_vars
    /\ [][(DataHandled /\ last_cc' \in BackoffCC /\ fru.fetch_size = 16) =>
            /\ fru'.fetch_size = 16
            /\ msg' = NoMsg /\ pc'[RD] = "cb_call"
            /\ IF fru.curr_pos >= 8
               THEN fru'.data_len = fru.curr_pos /\ DecodedCompletion
               ELSE /\ cb_err'[RD] = IPMI_IPMI_ERR_VAL(last_cc')
                    /\ fru'.data_len = fru.data_len]_vars

\* a third back-off completion code ended a read that had stored nothing
C29_Witness ==
    /\ fru.fetch_size = 16 /\ last_cc \in BackoffCC
    /\ pc[RD] = "cb_call" /\ fru.curr_pos = 0
    /\ cb_err[RD] = IPMI_IPMI_ERR_VAL(last_cc)

\* a response with completion code 0 that is too short to hold a count,
\* or whose count is 0 or more than the bytes that came with it
Malformed(f, r) ==
    /\ r.cc = 0
    /\ \/ r.len < 2
       \/ Shl(r.cnt, f.access_by_words) = 0
       \/ Shl(r.cnt, f.access_by_words) > r.len - 2

\* C30: on an object that is not deleted, fru_data_handler ends the read
\* with EINVAL for every malformed response with completion code 0: the
\* cursor and data_len stay, the buffer is freed and nothing more is asked;
\* every other response with completion code 0 moves the cursor forward by
\* its count, which is at least 1.  A read that ends with EINVAL on
\* completion code 0 has not moved the cursor in that step.
C30_StructuralErrors ==
    /\ [](DataHandled =>
            \A r \in ReadDataRsps(fru, msg), rv \in {0, ENOMEM},
               d \in ReadDecs :
                LET h == fru_data_handler(fru, r, rv, d) IN
                /\ Malformed(fru, r) =>
                     /\ h.done /\ h.err = EINVAL /\ h.msg = NoMsg
                     /\ h.fru.curr_pos = fru.curr_pos
                     /\ h.fru.data_len = fru.data_len
                     /\ ~h.fru.data /\ ~h.fru.in_use
                /\ (r.cc = 0 /\ ~Malformed(fru, r)) =>
                     /\ h.fru.curr_pos
                          = fru.curr_pos + Shl(r.cnt, fru.access_by_words)
                     /\ h.fru.curr_pos > fru.curr_pos
                     /\ h.err # EINVAL)
    /\ [][(DataHandled /\ last_cc' = 0) =>
            IF pc'[RD] = "cb_call" /\ cb_err'[RD] = EINVAL
            THEN /\ fru'.curr_pos = fru.curr_pos /\ msg' = NoMsg
                 /\ fru'.data_len = fru.data_len /\ ~fru'.data
            ELSE fru'.curr_pos > fru.curr_pos]_vars

\* the second response of a read was malformed
C30_Witness ==
    /\ pc[RD] = "cb_call" /\ cb_err[RD] = EINVAL /\ last_cc = 0
    /\ fru.curr_pos = 32 /\ fru.data_len > 32 /\ msg = NoMsg /\ ~fru.data


\* the bytes of the longest run of records at the head of recs in which the
\* first record starts at at and every other one where the one before ends
RECURSIVE AdjacentRun(_, _)
AdjacentRun(recs, at) ==
    IF recs = <<>> \/ Head(recs).offset # at THEN 0
    ELSE Head(recs).length
         + AdjacentRun(Tail(recs), at + Head(recs).length)

\* the command m built from the queue q, which left the queue q2, is the
\* maximal batch
MaximalBatch(q, q2, m) ==
    /\ m.boff = Head(q).offset
    /\ m.bcnt = Min(MAX_FRU_DATA_WRITE, AdjacentRun(q, Head(q).offset))
    /\ ConsumedAtHead(q, q2, m.bcnt)
    /\ (q2 # <<>> /\ Head(q2).offset = m.boff + m.bcnt) =>
            m.bcnt = MAX_FRU_DATA_WRITE

\* what next_fru_write makes of the queue q on this object
BatchOf(q) == next_fru_write([fru EXCEPT !.update_recs = q], 1)

\* C31: the command next_fru_write builds starts at the offset of the head
\* record and carries min(16, bytes of the longest run of adjacent records
\* at the head of the queue); records consumed whole are removed, a head
\* record consumed in part keeps (offset + consumed, length - consumed), and
\* the queue loses exactly the bytes the command carries; a write completes
\* with success only when the queue is empty, so that every byte queued
\* was sent once.  (0,8),(8,4) gives one command of 12 bytes, (0,4),(16,4)
\* two commands, one record of 1 byte one command of 1 byte at its offset.
C31_MaximalBatch ==
    /\ [](WriteCanStart =>
            \A s \in StartedWrites :
                MaximalBatch(s.q, s.r.fru.update_recs, s.r.msg))
    /\ [][NextCommand =>
            MaximalBatch(fru.update_recs, fru'.update_recs, msg')]_vars
    /\ [][(\E i \in 1..MaxWrites :
                WriteHandled(i) /\ pc'[WR(i)] = "cb_call" /\ cb_err'[WR(i)] = 0)
            => fru.update_recs = <<>>]_vars
    /\ [](WriteCanStart /\ fru.access_by_words = 0 =>
            /\ LET n == BatchOf(<<[offset |-> 0, length |-> 8],
                                  [offset |-> 8, length |-> 4]>>)
               IN n.msg.boff = 0 /\ n.msg.bcnt = 12 /\ n.fru.update_recs = <<>>
            /\ LET n == BatchOf(<<[offset |-> 0, length |-> 4],
                                  [offset |-> 16, length |-> 4]>>)
               IN /\ n.msg.boff = 0 /\ n.msg.bcnt = 4
                  /\ n.fru.update_recs = <<[offset |-> 16, length |-> 4]>>
                  /\ BatchOf(n.fru.update_recs).msg.boff = 16
                  /\ BatchOf(n.fru.update_recs).msg.bcnt = 4
                  /\ BatchOf(n.fru.update_recs).fru.update_recs = <<>>
            /\ \A o \in 0..MaxOff :
                LET n == BatchOf(<<[offset |-> o, length |-> 1]>>)
                IN n.msg.boff = o /\ n.msg.bcnt = 1 /\ n.fru.update_recs = <<>>)

\* one command carries the regions (0, 8) and (8, 5) of a byte-access
\* object, and the queue is empty
C31_Witness ==
    /\ fru.access_by_words = 0 /\ msg.cmd = "write" /\ wr_started = 1
    /\ msg.boff = 0 /\ msg.bcnt = 13 /\ fru.update_recs = <<>>
    /\ pc[WR(1)] = "wait" /\ last_cc = 0


\* C32: a write whose callback received success has had the decoder's
\* write_complete hook invoked exactly once, before that callback; for a
\* write whose callback received an error the hook was not invoked.
C32_HookBeforeSuccess ==
    \A i \in 1..MaxWrites :
        /\ wc_hooks[i] <= 1
        /\ (\E k \in 1..Len(done_cb[i]) : done_cb[i][k] = 0) => wc_hooks[i] = 1
        /\ (\E k \in 1..Len(done_cb[i]) : done_cb[i][k] # 0) => wc_hooks[i] = 0


\* the response fru_write_handler handles in this step ends write i: the
\* device is busy and the command was already sent again 30 times, or the
\* completion code is neither 0 nor busy
FatalWriteResponse(i) ==
    /\ WriteHandled(i)
    /\ <<fru, msg, pc>>' # <<fru, msg, pc>>
    /\ \/ last_cc' = IPMI_DEVICE_BUSY_CC
          /\ fru.retry_count >= MAX_FRU_WRITE_RETRIES
       \/ last_cc' \notin {0, IPMI_DEVICE_BUSY_CC}

\* write i was ended by its response handler with an error
WriteFailed(i) ==
    pc[WR(i)] \in {"cb_call", "in_cb", "put", "done"} /\ cb_err[WR(i)] # 0

\* C33: a busy response that arrives when retry_count is 30, and a response
\* with any other non-zero completion code, ends the write: no command is
\* in flight afterwards, in_use is clear, the buffer is freed, the hook
\* write_complete is not called, the user's callback is called once, with
\* the IPMI error of that completion code, and the write's reference is
\* dropped.
C33_FatalWriteResponse ==
    /\ [][\A i \in 1..MaxWrites : FatalWriteResponse(i) =>
            /\ msg' = NoMsg
            /\ pc'[WR(i)] = "cb_call"
            /\ cb_err'[WR(i)] = IPMI_IPMI_ERR_VAL(last_cc')
            /\ ~fru'.in_use /\ ~fru'.data
            /\ fru'.refcount = fru.refcount
            /\ UNCHANGED <<done_cb, wc_hooks>>]_vars
    /\ [](\A i \in 1..MaxWrites : WriteFailed(i) =>
            /\ msg = NoMsg
            /\ ~fru.freed /\ ~fru.in_use
            /\ done_cb[i] = IF pc[WR(i)] = "cb_call" THEN <<>>
                             ELSE <<cb_err[WR(i)]>>
            /\ fru.refcount = IF pc[WR(i)] = "done" THEN 1 ELSE 2)

\* a write given up after the thirtieth re-send found the device busy
\* again: its callback has returned and its reference is dropped
C33_Witness ==
    /\ pc[WR(1)] = "done" /\ last_cc = IPMI_DEVICE_BUSY_CC
    /\ fru.retry_count = MAX_FRU_WRITE_RETRIES
    /\ done_cb[1] = <<IPMI_IPMI_ERR_VAL(IPMI_DEVICE_BUSY_CC)>>
    /\ fru.refcount = 1 /\ ~fru.in_use


\* thread t comes back from the unlocked window of final_fru_destroy in
\* this step
WindowCloses(t) == pc[t] = "fin" /\ pc'[t] # "fin"

\* C34: when final_fru_destroy takes the lock again after removing the
\* object from the registry and the reference count is not the 1 it left
\* (the iterator took a reference in the window), it drops its own count
\* and returns without freeing; after that the object is torn down once,
\* in a step that finds the reference count at 0, not while the iterator's
\* callback runs on it, and it has been torn down when every thread has
\* come to rest.
C34_FinalDestroyYields ==
    /\ [][\A t \in Threads : WindowCloses(t) =>
            IF fru.refcount # 1
            THEN /\ pc[IT] \in {"in_cb", "put"}
                 /\ pc'[t] = ret[t]
                 /\ fru'.refcount = fru.refcount - 1 /\ fru'.refcount >= 1
                 /\ ~fru'.freed /\ teardowns' = teardowns
                 /\ yielded'
            ELSE pc'[t] = "teardown" /\ yielded' = yielded]_vars
    /\ [](yielded =>
            /\ teardowns <= 1
            /\ pc[IT] = "in_cb" => (~fru.freed /\ fru.refcount >= 1)
            /\ (Quiet /\ crashed = "no") => (teardowns = 1 /\ fru.freed))
    /\ [][(yielded /\ teardowns' # teardowns) =>
            /\ fru.refcount = 0
            /\ pc[IT] # "in_cb"]_vars

\* final_fru_destroy gave up, and the iterator, which dropped the last
\* reference, has torn the object down
C34_Witness ==
    /\ yielded /\ teardowns = 1 /\ fru.freed
    /\ pc[IT] = "done" /\ crashed = "no"


\* thread t takes the lock of the registry's list in this step: to enter a
\* new object, to remove one (ipmi_fru_destroy, final_fru_destroy) or to
\* walk the list
ListLockTaken(t) ==
    \/ t = U /\ ~fru.alloc /\ fru'.alloc
    \/ t = U /\ pc[U] \in {"d_remove", "a_remove"} /\ pc'[U] # pc[U]
    \/ WindowCloses(t)
    \/ t = IT /\ IterationStarts

\* C35: a thread that takes the list lock holds no per-FRU lock (the list
\* lock comes first, the per-FRU lock second), and no thread comes to wait
\* for ever on one of the two locks.
C35_ListLockFirst ==
    /\ [][\A t \in Threads : ListLockTaken(t) => held[t] = 0]_vars
    /\ [](\A t \in Threads : pc[t] # "blocked")

\* a step of ipmi_fru_destroy, of ipmi_fru_write or of a response handler
LockedOperation ==
    \/ pc[U] \in {"a_destroy", "a_remove", "d_remove", "d_internal"}
       /\ pc'[U] # pc[U]
    \/ pc[U] = "idle" /\ ucall' \in {"destroy", "destroy_internal", "write"}
       /\ <<fru, pc, user>>' # <<fru, pc, user>>
    \/ \E t \in OpThreads : pc[t] = "wait" /\ <<fru, msg, pc>>' # <<fru, msg, pc>>

\* C36: every way out of ipmi_fru_destroy, of ipmi_fru_write and of a
\* response handler has released the per-FRU lock as often as it took it:
\* the thread's holds are what they were when the operation began, never
\* fewer than none, and none when the thread is outside every call.
C36_LockBalanced ==
    /\ [][LockedOperation => held' = held]_vars
    /\ [](\A t \in Threads :
            /\ held[t] >= 0
            /\ pc[t] \in {"none", "idle", "done", "wait", "cb_call", "in_cb"}
                  => held[t] = 0)


\* C37: when ipmi_fru_write has returned an error other than EAGAIN, in_use
\* is clear and the next call of ipmi_fru_write is not turned away as busy.
C37_IdleAfterWriteError ==
    (ucall = "write" /\ urv \notin {0, EAGAIN} /\ pc[U] = "idle") =>
        /\ ~fru.in_use
        /\ \A h \in WriteHooks :
              ipmi_fru_write(fru, wr_started + 1, 0, TRUE, h, 0).rv # EAGAIN


\* C38: the callback of a call of ipmi_fru_write is never invoked twice; it
\* has not been invoked when the call returned an error, nor while the
\* write that a call returning 0 started still waits for the device or is
\* about to call it; it has been invoked once when the write's thread is
\* past the call, and a write without records has it invoked once by the
\* time its call returns.
C38_DoneExactlyOnce ==
    \A i \in 1..MaxWrites :
        /\ Len(done_cb[i]) <= 1
        /\ (i = wr_started /\ ucall = "write" /\ urv \notin {0, EAGAIN}) =>
                done_cb[i] = <<>>
        /\ pc[WR(i)] \in {"wait", "cb_call"} => done_cb[i] = <<>>
        /\ pc[WR(i)] \in {"in_cb", "put", "done"} => Len(done_cb[i]) = 1
        /\ (i = wr_started /\ pc[WR(i)] = "none" /\ ucall = "write" /\ urv = 0
                /\ pc[U] \in {"in_cb", "idle"} /\ crashed = "no") =>
                Len(done_cb[i]) = 1


\* write i has completed, or the call that was to start it has returned
\* without starting it
WriteOver(i) ==
    \/ pc[WR(i)] \in {"cb_call", "in_cb", "put", "done"}
    \/ /\ i = wr_started /\ pc[WR(i)] = "none"
       /\ ucall = "write" /\ urv # EAGAIN /\ pc[U] \in {"cb_call", "in_cb", "idle"}

\* C39: once a write has completed, with success or with an error, the
\* update queue is empty, and the first command of the next write starts
\* at the first region that write's hook reports.
C39_QueueEmptyAfterWrite ==
    \A i \in 1..MaxWrites : (WriteOver(i) /\ ~fru.freed) =>
        /\ fru.update_recs = <<>>
        /\ ~fru.in_use =>
              \A h \in WriteHooks :
                  LET r == ipmi_fru_write(fru, i + 1, 0, TRUE, h, 0) IN
                  r.kind = "streaming" =>
                      /\ h.regions # <<>>
                      /\ r.msg.boff = RecordFor(fru, h.regions[1]).offset


\* a call of ipmi_fru_write passes the in_use gate in this step, on an
\* object whose read has ended with an error, its callback returned and
\* its reference dropped, so that no decoder installed an ops table
WriteWithoutOps ==
    /\ pc[U] = "idle" /\ wr_started' # wr_started
    /\ pc[RD] = "done" /\ cb_err[RD] # 0
    /\ fru.alloc /\ ~fru.freed /\ ~fru.ops

\* C40: ipmi_fru_write on an idle object without an ops table returns an
\* error: it calls no decoder hook through the absent table (the process
\* goes on), sends nothing, starts no write and calls no callback.
C40_NoHookWithoutOps ==
    [][WriteWithoutOps =>
            /\ crashed' = "no"
            /\ ucall' = "write" /\ urv' # 0
            /\ UNCHANGED <<msg, pc, done_cb, wc_hooks>>]_vars

=============================================================================
